---- MODULE Spec2Model ----
(***************************************************************************)
(* Layout editor of telemetry-studio: the document model (EditorState),    *)
(* the undo/redo history (HistoryManager) and the pointer / keyboard       *)
(* handlers of the canvas (Canvas), as one state machine.                  *)
(*                                                                         *)
(* Conventions                                                             *)
(*  - a JS value that may be null is a sequence of length 0 or 1;          *)
(*    the layout itself is NoLayout while EditorState.layout is null;      *)
(*  - a JS object whose keys are written at run time (widget.properties)   *)
(*    is the sequence of its <<key, value>> pairs in insertion order, the  *)
(*    order JSON.stringify writes them in;                                 *)
(*  - currentIndex is 0-based as in the source: history[currentIndex] of   *)
(*    the source is history[currentIndex + 1] here.                        *)
(***************************************************************************)
EXTENDS Integers, Sequences, FiniteSets, TLC

(***************************************************************************)
(* Bounds of the model                                                     *)
(***************************************************************************)
\* handlers run on a document in an editing session (guards every action of Next)
MaxSteps == 3
\* handlers run on a document in a pointer session (guards every action of NextGesture)
MaxGestureSteps == 7
\* handlers run in a long session, after its first edits (guards every action of NextLong)
MaxLongSteps == 3
\* widgets in the tree (guards addWidget)
MaxWidgets == 2
\* handlers run on a container whose bounds are looked at
MaxBoundsSteps == 2
\* handlers run on a document while a faulty callback is subscribed
MaxListenersSteps == 3
\* handlers run on a document in a keyboard session
MaxKeysSteps == 4
MaxResizeSteps == 6
MaxLockSteps == 5
MaxPreviewCalls == 5
MaxJobs == 3
MaxStarting == 2

(***************************************************************************)
(* Program constants                                                       *)
(***************************************************************************)
maxHistory == 50

\* Lengths and coordinates are counted in half pixels, so that the centre
\* of a box of any whole width is a number of the model: px(n) is n pixels
px(n) == 2 * n

\* Math.round of a length: the nearest whole pixel, a half going up
mathRound(v) == ((v + 1) \div 2) * 2

minSize == px(20)

\* the window of _onDrop, in milliseconds
dropDebounce == 300
\* Date.now() when the editor is constructed
StartTime == 1000

\* RenderModal.MAX_FAILURES
MAX_FAILURES == 10

\* the ids Math.random().toString(36) may produce (a small alphabet of them)
Ids == {"w_a", "w_b"}

(***************************************************************************)
(* The widget metadata catalog (external, read-only, indexed by type)      *)
(***************************************************************************)
widgetMetadataByType ==
    [text      |-> [is_container |-> FALSE, default_width |-> px(100),
                    default_height |-> px(50),
                    properties |-> << [name |-> "x", default |-> <<>>],
                                      [name |-> "y", default |-> <<>>],
                                      [name |-> "align", default |-> <<"left">>] >>],
     composite |-> [is_container |-> TRUE, default_width |-> px(100),
                    default_height |-> px(50),
                    properties |-> << [name |-> "x", default |-> <<>>],
                                      [name |-> "y", default |-> <<>>] >>],
     bar       |-> [is_container |-> FALSE, default_width |-> px(100),
                    default_height |-> px(50),
                    properties |-> << [name |-> "x", default |-> <<>>],
                                      [name |-> "y", default |-> <<>>],
                                      [name |-> "width", default |-> <<>>],
                                      [name |-> "height", default |-> <<>>] >>],
     moving_map |-> [is_container |-> FALSE, default_width |-> px(100),
                    default_height |-> px(50),
                    properties |-> << [name |-> "x", default |-> <<>>],
                                      [name |-> "y", default |-> <<>>],
                                      [name |-> "size", default |-> <<>>] >>]]

KnownTypes == DOMAIN widgetMetadataByType
\* the catalog types the palette is asked for
PaletteTypes == {"text", "composite"}
\* a type the palette may name although the catalog does not hold it
UnknownType == "ghost_widget"

(***************************************************************************)
(* Layout documents                                                        *)
(***************************************************************************)
NoLayout == [null |-> TRUE]

\* EditorState.newLayout: the blank document (id and metadata.name are not
\* read by any handler modelled here and are left out)
BlankLayout(width, height) ==
    [canvas  |-> [width |-> width, height |-> height, grid_enabled |-> TRUE,
                  grid_size |-> px(10), snap_to_grid |-> FALSE],
     widgets |-> <<>>]

\* the widget object literal of addWidget
NewWidget(id, type, x, y, props) ==
    [id |-> id, type |-> type, x |-> x, y |-> y, properties |-> props,
     children |-> <<>>, locked |-> FALSE, visible |-> TRUE]

\* EditorState._getDefaultProperties
RECURSIVE getDefaultProperties(_)
getDefaultProperties(propDefs) ==
    IF propDefs = <<>> THEN <<>>
    ELSE LET p    == Head(propDefs)
             rest == getDefaultProperties(Tail(propDefs))
         IN  IF p.name = "x" \/ p.name = "y" THEN rest
             ELSE IF p.default # <<>> THEN << <<p.name, p.default[1]>> >> \o rest
             ELSE rest

(***************************************************************************)
(* Tree queries and mutations                                              *)
(***************************************************************************)
\* EditorState._findWidgetRecursive: the first match in depth-first order,
\* <<widget>> when found, <<>> for null
RECURSIVE findWidgetRecursive(_, _)
findWidgetRecursive(widgets, widgetId) ==
    IF widgets = <<>> THEN <<>>
    ELSE LET w == Head(widgets)
         IN  IF w.id = widgetId THEN <<w>>
             ELSE LET found == IF Len(w.children) > 0
                               THEN findWidgetRecursive(w.children, widgetId)
                               ELSE <<>>
                  IN  IF found # <<>> THEN found
                      ELSE findWidgetRecursive(Tail(widgets), widgetId)

\* EditorState._removeWidgetRecursive: splices the first match out
RECURSIVE removeWidgetRecursive(_, _)
removeWidgetRecursive(widgets, widgetId) ==
    IF widgets = <<>> THEN [removed |-> FALSE, widgets |-> <<>>]
    ELSE LET w == Head(widgets)
         IN  IF w.id = widgetId THEN [removed |-> TRUE, widgets |-> Tail(widgets)]
             ELSE LET inner == IF Len(w.children) > 0
                               THEN removeWidgetRecursive(w.children, widgetId)
                               ELSE [removed |-> FALSE, widgets |-> <<>>]
                  IN  IF inner.removed
                      THEN [removed |-> TRUE,
                            widgets |-> <<[w EXCEPT !.children = inner.widgets]>> \o Tail(widgets)]
                      ELSE LET rest == removeWidgetRecursive(Tail(widgets), widgetId)
                           IN  [removed |-> rest.removed, widgets |-> <<w>> \o rest.widgets]

\* the in-place mutation of the object findWidget returned: the first match
\* in depth-first order is replaced by `nw`
RECURSIVE replaceWidget(_, _, _)
replaceWidget(widgets, widgetId, nw) ==
    IF widgets = <<>> THEN <<>>
    ELSE LET w == Head(widgets)
         IN  IF w.id = widgetId THEN <<nw>> \o Tail(widgets)
             ELSE IF findWidgetRecursive(w.children, widgetId) # <<>>
                  THEN <<[w EXCEPT !.children = replaceWidget(w.children, widgetId, nw)]>>
                       \o Tail(widgets)
                  ELSE <<w>> \o replaceWidget(Tail(widgets), widgetId, nw)

\* every id in the forest
RECURSIVE AllIds(_)
AllIds(widgets) ==
    IF widgets = <<>> THEN {}
    ELSE {Head(widgets).id} \cup AllIds(Head(widgets).children) \cup AllIds(Tail(widgets))

\* the number of widgets in the forest
RECURSIVE CountWidgets(_)
CountWidgets(widgets) ==
    IF widgets = <<>> THEN 0
    ELSE 1 + CountWidgets(Head(widgets).children) + CountWidgets(Tail(widgets))

\* the ids of the subtree rooted at the first widget with this id
SubtreeIds(widgets, widgetId) ==
    LET f == findWidgetRecursive(widgets, widgetId)
    IN  IF f = <<>> THEN {} ELSE {f[1].id} \cup AllIds(f[1].children)

(***************************************************************************)
(* JSON.stringify / JSON.parse of a layout                                 *)
(* The text is modelled by its token structure: an object becomes the      *)
(* tuple of its values in key order, tagged with what it is.               *)
(***************************************************************************)
RECURSIVE stringifyWidgets(_)
stringifyWidgets(widgets) ==
    IF widgets = <<>> THEN <<>>
    ELSE LET w == Head(widgets)
         IN  << <<"{widget}", w.id, w.type, w.x, w.y, w.properties,
                  stringifyWidgets(w.children), w.locked, w.visible>> >>
             \o stringifyWidgets(Tail(widgets))

JSONstringify(layout) ==
    <<"{layout}",
      <<layout.canvas.width, layout.canvas.height, layout.canvas.grid_enabled,
        layout.canvas.grid_size, layout.canvas.snap_to_grid>>,
      stringifyWidgets(layout.widgets)>>

RECURSIVE parseWidgets(_)
parseWidgets(text) ==
    IF text = <<>> THEN <<>>
    ELSE LET t == Head(text)
         IN  << [id |-> t[2], type |-> t[3], x |-> t[4], y |-> t[5], properties |-> t[6],
                 children |-> parseWidgets(t[7]), locked |-> t[8], visible |-> t[9]] >>
             \o parseWidgets(Tail(text))

JSONparse(text) ==
    [canvas  |-> [width |-> text[2][1], height |-> text[2][2], grid_enabled |-> text[2][3],
                  grid_size |-> text[2][4], snap_to_grid |-> text[2][5]],
     widgets |-> parseWidgets(text[3])]

(***************************************************************************)
(* State                                                                   *)
(***************************************************************************)
VARIABLES
    layout,           \* EditorState.layout
    selectedWidgets,  \* EditorState.selectedWidgets
    isDirty,          \* EditorState.isDirty
    listeners,        \* EditorState.listeners: the <<event, callback>> pairs, in the order of on()
    history,          \* HistoryManager.history
    currentIndex,     \* HistoryManager.currentIndex
    lastSnapshot,     \* HistoryManager.lastSnapshot
    isRestoring,      \* HistoryManager.isRestoring
    dragState,        \* Canvas.dragState
    resizeState,      \* Canvas.resizeState
    handles,          \* ids of the widgets whose resize handles the last render() drew
    lastDropTime,     \* Canvas._lastDropTime
    now,              \* what Date.now() returned last, in milliseconds
    emitted,          \* the events the last handler emitted, in order
    steps,            \* handlers run since a document was first set
    last,             \* the last handler that ran and what it was given
    debouncer,        \* UnifiedApp.previewDebouncer: timeoutId, abortController
    calls,            \* the preview callbacks that were started and have not settled
    modal,            \* the RenderModal object and what its buttons and status text show
    server,           \* the requests of the modal that are in flight, and the jobs started
    answered          \* the response the modal handled last: the job it was asked for

editor == <<layout, selectedWidgets, isDirty, listeners, history, currentIndex, lastSnapshot,
            isRestoring, dragState, resizeState, handles, lastDropTime, now,
            emitted, steps, last>>

preview == <<debouncer, calls>>

rendering == <<modal, server, answered>>

vars == <<editor, preview, rendering>>

\* new RenderModal(state); closeShown: the two close buttons are displayed;
\* shown: the status the status text shows (<<>> for the text after
\* _resetUI) and shownJob: the job whose response put it there
RenderModal ==
    [jobId |-> <<>>, isOpen |-> FALSE, currentStatus |-> <<>>, polling |-> FALSE,
     statusRequestPending |-> FALSE, consecutiveFailures |-> 0,
     closeShown |-> FALSE, shown |-> <<>>, shownJob |-> <<>>]

\* the constructor has sent _checkActiveRender's request; no render was
\* asked for and no status request is in flight
PageLoaded == [checking |-> TRUE, starting |-> 0, started |-> 0, statusRequests |-> <<>>]

\* new PreviewDebouncer(500); `created` counts the controllers made so far
PreviewDebouncer == [timeoutId |-> FALSE, abortController |-> <<>>, created |-> 0]

\* the program state as one value, the `this` every method below works on
State ==
    [layout |-> layout, selectedWidgets |-> selectedWidgets, isDirty |-> isDirty,
     listeners |-> listeners, history |-> history, currentIndex |-> currentIndex, lastSnapshot |-> lastSnapshot,
     isRestoring |-> isRestoring, dragState |-> dragState, resizeState |-> resizeState,
     handles |-> handles, lastDropTime |-> lastDropTime, now |-> now, emitted |-> <<>>]

(***************************************************************************)
(* widget.properties                                                       *)
(***************************************************************************)
\* widget.properties[name]: <<value>>, or <<>> for undefined
RECURSIVE getProp(_, _)
getProp(props, name) ==
    IF props = <<>> THEN <<>>
    ELSE IF Head(props)[1] = name THEN <<Head(props)[2]>>
    ELSE getProp(Tail(props), name)

\* widget.properties[name] = value: an existing key keeps its place, a new
\* key goes last
RECURSIVE setProp(_, _, _)
setProp(props, name, value) ==
    IF props = <<>> THEN << <<name, value>> >>
    ELSE IF Head(props)[1] = name THEN << <<name, value>> >> \o Tail(props)
    ELSE <<Head(props)>> \o setProp(Tail(props), name, value)

\* a || b over numbers, undefined being <<>>: the first truthy operand
OrElse(a, b) == IF a # <<>> /\ a[1] # 0 THEN a ELSE b

(***************************************************************************)
(* Geometry of the rendered canvas                                         *)
(***************************************************************************)
WIDGETS_WITH_SIZE_AS_BOX ==
    {"moving_map", "journey_map", "moving_journey_map", "circuit_map",
     "compass", "compass_arrow", "asi", "msi", "gps_lock_icon", "icon",
     "cairo_circuit_map", "cairo_gauge_marker", "cairo_gauge_round_annotated",
     "cairo_gauge_arc_annotated", "cairo_gauge_donut"}

\* widgetMetadataByType[type], <<>> when the catalog has no such type
metadataOf(type) ==
    IF type \in KnownTypes THEN <<widgetMetadataByType[type]>> ELSE <<>>

sizeAsDimension(w) ==
    IF w.type \in WIDGETS_WITH_SIZE_AS_BOX THEN getProp(w.properties, "size") ELSE <<>>

effectiveWidth(w) ==
    LET md == metadataOf(w.type)
    IN  OrElse(getProp(w.properties, "width"),
        OrElse(getProp(w.properties, "_displayWidth"),
        OrElse(sizeAsDimension(w),
        OrElse(IF md = <<>> THEN <<>> ELSE <<md[1].default_width>>, <<px(100)>>))))[1]

effectiveHeight(w) ==
    LET md == metadataOf(w.type)
    IN  OrElse(getProp(w.properties, "height"),
        OrElse(getProp(w.properties, "_displayHeight"),
        OrElse(sizeAsDimension(w),
        OrElse(IF md = <<>> THEN <<>> ELSE <<md[1].default_height>>, <<px(50)>>))))[1]

\* Canvas._getWidgetDisplayBounds (width / 2 is exact: a whole width is an
\* even number of half pixels)
getWidgetDisplayBounds(w) ==
    LET displayX(width, align) ==
            IF align = <<"right">> THEN w.x - width
            ELSE IF align = <<"centre">> \/ align = <<"center">>
                 THEN w.x - (width \div 2)
                 ELSE w.x
        bounds(width, height) ==
            [x |-> displayX(width, getProp(w.properties, "align")), y |-> w.y,
             width |-> width, height |-> height]
    IN  bounds(effectiveWidth(w), effectiveHeight(w))

Min(a, b) == IF a < b THEN a ELSE b
Max(a, b) == IF a > b THEN a ELSE b

\* (variant) the union that takes the invisible children in as well
RECURSIVE unionOfAll(_)
unionOfAll(children) ==
    LET extend(b, rest) ==
            IF rest = <<>>
            THEN << [minX |-> b.x, minY |-> b.y,
                     maxX |-> b.x + b.width, maxY |-> b.y + b.height] >>
            ELSE << [minX |-> Min(b.x, rest[1].minX), minY |-> Min(b.y, rest[1].minY),
                     maxX |-> Max(b.x + b.width, rest[1].maxX),
                     maxY |-> Max(b.y + b.height, rest[1].maxY)] >>
    IN  IF children = <<>> THEN <<>>
        ELSE extend(getWidgetDisplayBounds(Head(children)), unionOfAll(Tail(children)))

\* Canvas._getChildrenBounds: <<box>>, or <<>> for null
RECURSIVE unionOfVisible(_)
unionOfVisible(children) ==
    LET extend(b, rest) ==
            IF rest = <<>>
            THEN << [minX |-> b.x, minY |-> b.y,
                     maxX |-> b.x + b.width, maxY |-> b.y + b.height] >>
            ELSE << [minX |-> Min(b.x, rest[1].minX), minY |-> Min(b.y, rest[1].minY),
                     maxX |-> Max(b.x + b.width, rest[1].maxX),
                     maxY |-> Max(b.y + b.height, rest[1].maxY)] >>
    IN  IF children = <<>> THEN <<>>
        ELSE IF ~Head(children).visible THEN unionOfVisible(Tail(children))
        ELSE extend(getWidgetDisplayBounds(Head(children)), unionOfVisible(Tail(children)))

getChildrenBounds(children) ==
    LET box(u) ==
            IF u = <<>> THEN <<>>
            ELSE << [x |-> u[1].minX, y |-> u[1].minY,
                     width |-> u[1].maxX - u[1].minX, height |-> u[1].maxY - u[1].minY] >>
    IN  box(unionOfVisible(children))

\* Canvas._renderWidget: the style of the element (left, top, width, height)
\* and the offset of the wrapper its children are put in
renderWidget(w) ==
    LET isContainer(md) == md # <<>> /\ md[1].is_container
        style(own, cb) ==
            IF cb # <<>>
            THEN [left |-> w.x + cb[1].x, top |-> w.y, width |-> cb[1].width,
                  height |-> cb[1].height,
                  childrenOffsetX |-> -cb[1].x, childrenOffsetY |-> -cb[1].y]
            ELSE [left |-> own.x, top |-> w.y, width |-> own.width, height |-> own.height,
                  childrenOffsetX |-> 0, childrenOffsetY |-> 0]
    IN  style(getWidgetDisplayBounds(w),
              IF isContainer(metadataOf(w.type)) /\ Len(w.children) > 0
              THEN getChildrenBounds(w.children) ELSE <<>>)

\* Canvas._renderWidget, isOutOfBounds: the element gets the class
\* out-of-bounds and its title
isOutOfBounds(w, canvas) ==
    LET beyond(r) ==
            \/ r.left < 0
            \/ w.y < 0
            \/ r.left + r.width > canvas.width
            \/ w.y + r.height > canvas.height
    IN  beyond(renderWidget(w))

\* PropertiesPanel._checkWidgetBounds: the edges its warning lists, the empty
\* set when it returns null
checkWidgetBounds(widget, canvas) ==
    LET md == metadataOf(widget.type)
        width == OrElse(getProp(widget.properties, "width"),
                 OrElse(sizeAsDimension(widget),
                 OrElse(IF md = <<>> THEN <<>> ELSE <<md[1].default_width>>, <<px(100)>>)))[1]
        height == OrElse(getProp(widget.properties, "height"),
                  OrElse(sizeAsDimension(widget),
                  OrElse(IF md = <<>> THEN <<>> ELSE <<md[1].default_height>>, <<px(50)>>)))[1]
        align == getProp(widget.properties, "align")
        displayX == IF align = <<"right">> THEN widget.x - width
                    ELSE IF align = <<"centre">> \/ align = <<"center">>
                         THEN widget.x - (width \div 2)
                         ELSE widget.x
    IN  (IF displayX < 0 THEN {"left"} ELSE {})
        \cup (IF widget.y < 0 THEN {"top"} ELSE {})
        \cup (IF displayX + width > canvas.width THEN {"right"} ELSE {})
        \cup (IF widget.y + height > canvas.height THEN {"bottom"} ELSE {})

\* the elements render() creates: the paths (child indices from the root
\* list) of the widgets that are visible and have only visible ancestors
RECURSIVE renderedPaths(_, _)
renderedPaths(widgets, prefix) ==
    UNION { IF ~widgets[i].visible THEN {}
            ELSE {Append(prefix, i)} \cup renderedPaths(widgets[i].children, Append(prefix, i))
          : i \in 1..Len(widgets) }

\* the widget an element was rendered from
RECURSIVE widgetAt(_, _)
widgetAt(widgets, path) ==
    IF Len(path) = 1 THEN widgets[path[1]]
    ELSE widgetAt(widgets[path[1]].children, Tail(path))

\* the element's top-left corner relative to the canvas element, which is
\* what getBoundingClientRect gives after the division by scale
RECURSIVE elementPosition(_, _, _, _)
elementPosition(widgets, path, originX, originY) ==
    LET placed(w, r) ==
            IF Len(path) = 1 THEN [x |-> originX + r.left, y |-> originY + r.top]
            ELSE elementPosition(w.children, Tail(path),
                                 originX + r.left + r.childrenOffsetX,
                                 originY + r.top + r.childrenOffsetY)
    IN  placed(widgets[path[1]], renderWidget(widgets[path[1]]))

\* Math.round(a / b) * b for b > 0 (a quotient, so the same in any unit)
roundTo(a, b) == ((2 * a + b) \div (2 * b)) * b

(***************************************************************************)
(* Events and their listeners                                              *)
(***************************************************************************)
\* Canvas.render as far as the handlers can tell: which widgets get resize
\* handles (rendered, selected and not locked)
render(s) ==
    IF s.layout = NoLayout THEN s
    ELSE [s EXCEPT !.handles =
            { widgetAt(s.layout.widgets, p).id : p \in
                { q \in renderedPaths(s.layout.widgets, <<>>) :
                    LET w == widgetAt(s.layout.widgets, q)
                    IN  w.id \in s.selectedWidgets /\ ~w.locked } }]

\* Canvas._attachStateListeners: the subscriptions that answer with render()
CanvasListeners ==
    << <<"layout:changed", "render">>, <<"layout:restored", "render">>,
       <<"widget:added", "render">>, <<"widget:removed", "render">>,
       <<"widget:updated", "render">>, <<"property:changed", "render">> >>

\* EditorState.on (the callback being "render", or "throws" for a subscriber
\* whose callback throws)
on(s, event, callback) == [s EXCEPT !.listeners = Append(@, <<event, callback>>)]

\* cb(data): what the callback leaves, and whether it threw
call(s, callback) ==
    IF callback = "throws" THEN [threw |-> TRUE, state |-> s]
    ELSE [threw |-> FALSE, state |-> render(s)]

\* (variant) the forEach of emit without its try / catch: the first callback
\* that throws ends the delivery
RECURSIVE notifyUncaught(_, _)
notifyUncaught(s, subscriptions) ==
    LET then(r) == IF r.threw THEN r.state
                   ELSE notifyUncaught(r.state, Tail(subscriptions))
    IN  IF subscriptions = <<>> THEN s ELSE then(call(s, Head(subscriptions)[2]))

\* listeners.forEach(cb => { try { cb(data) } catch (e) { console.error } })
RECURSIVE notify(_, _)
notify(s, subscriptions) ==
    LET then(r) == notify(r.state, Tail(subscriptions))
    IN  IF subscriptions = <<>> THEN s ELSE then(call(s, Head(subscriptions)[2]))

\* (variant) emit that lets the exception of a listener through
emitUncaught(s, event) ==
    notifyUncaught([s EXCEPT !.emitted = Append(@, event)],
                   SelectSeq(s.listeners, LAMBDA r : r[1] = event))

\* EditorState.emit: the event is delivered to its listeners, in order
emit(s, event) ==
    notify([s EXCEPT !.emitted = Append(@, event)],
           SelectSeq(s.listeners, LAMBDA r : r[1] = event))

(***************************************************************************)
(* HistoryManager                                                          *)
(***************************************************************************)
\* (variant) canUndo that also allows a step back from the oldest entry
canUndoAtOldest(s) == s.currentIndex >= 0

canUndo(s) == s.currentIndex > 0

canRedo(s) == s.currentIndex < Len(s.history) - 1

emitChange(s) == emit(s, "history:changed")

\* (variant) snapshot that keeps the entries beyond the cursor
snapshotKeepsFuture(s) ==
    IF s.isRestoring THEN s
    ELSE IF s.layout = NoLayout THEN s
    ELSE LET snap == JSONstringify(s.layout)
         IN  IF <<snap>> = s.lastSnapshot THEN s
             ELSE emit([s EXCEPT !.history      = Append(@, snap),
                                 !.currentIndex = @ + 1,
                                 !.lastSnapshot = <<snap>>],
                       "history:changed")

\* (variant) snapshot that does not compare with lastSnapshot
snapshotAlways(s) ==
    IF s.isRestoring THEN s
    ELSE IF s.layout = NoLayout THEN s
    ELSE LET snap == JSONstringify(s.layout)
         IN  emit([s EXCEPT !.history      = Append(SubSeq(@, 1, s.currentIndex + 1), snap),
                            !.currentIndex = @ + 1,
                            !.lastSnapshot = <<snap>>],
                  "history:changed")

\* (variant) snapshot that never evicts
snapshotUnbounded(s) ==
    IF s.isRestoring THEN s
    ELSE IF s.layout = NoLayout THEN s
    ELSE LET snap == JSONstringify(s.layout)
         IN  IF <<snap>> = s.lastSnapshot THEN s
             ELSE emit([s EXCEPT !.history      = Append(SubSeq(@, 1, s.currentIndex + 1), snap),
                                 !.currentIndex = @ + 1,
                                 !.lastSnapshot = <<snap>>],
                       "history:changed")

snapshot(s) ==
    IF s.isRestoring THEN s
    ELSE IF s.layout = NoLayout THEN s
    ELSE LET snap == JSONstringify(s.layout)
         IN  IF <<snap>> = s.lastSnapshot THEN s
             ELSE LET kept   == SubSeq(s.history, 1, s.currentIndex + 1)
                      pushed == Append(kept, snap)
                      over   == Len(pushed) > maxHistory
                  IN  emitChange([s EXCEPT
                          !.history      = IF over THEN Tail(pushed) ELSE pushed,
                          !.currentIndex = IF over THEN s.currentIndex
                                           ELSE s.currentIndex + 1,
                          !.lastSnapshot = <<snap>>])

clear(s) ==
    emitChange([s EXCEPT !.history = <<>>, !.currentIndex = -1, !.lastSnapshot = <<>>])

\* EditorState.saveSnapshot
saveSnapshot(s) == snapshot(s)

\* (variant) _restore without the isRestoring flag, lastSnapshot being set
\* only after the listeners have run
restoreUnguarded(s, reenter) ==
    IF s.currentIndex < 0 \/ s.currentIndex >= Len(s.history) THEN s
    ELSE LET snap     == s.history[s.currentIndex + 1]
             notified == emit([s EXCEPT !.layout = JSONparse(snap)], "layout:restored")
             listened == IF reenter THEN saveSnapshot(notified) ELSE notified
         IN  [listened EXCEPT !.lastSnapshot = <<snap>>]

\* HistoryManager._restore; `reenter` says whether a listener of
\* layout:restored calls saveSnapshot() while it is being notified
restore(s, reenter) ==
    IF s.currentIndex < 0 \/ s.currentIndex >= Len(s.history) THEN s
    ELSE LET snap     == s.history[s.currentIndex + 1]
             restored == [s EXCEPT !.isRestoring = TRUE,
                                   !.layout = JSONparse(snap),
                                   !.lastSnapshot = <<snap>>]
             notified == emit(restored, "layout:restored")
             listened == IF reenter THEN saveSnapshot(notified) ELSE notified
         IN  [listened EXCEPT !.isRestoring = FALSE]

undo(s, reenter) ==
    IF ~canUndo(s) THEN s
    ELSE emitChange(restore([s EXCEPT !.currentIndex = @ - 1], reenter))

redo(s, reenter) ==
    IF ~canRedo(s) THEN s
    ELSE emitChange(restore([s EXCEPT !.currentIndex = @ + 1], reenter))

(***************************************************************************)
(* EditorState                                                             *)
(***************************************************************************)
findWidget(s, widgetId) == findWidgetRecursive(s.layout.widgets, widgetId)

\* (variant) setLayout that leaves the history of the previous document
setLayoutKeepsHistory(s, newLayoutValue) ==
    emit(emit(snapshot([s EXCEPT !.layout = newLayoutValue, !.isDirty = FALSE,
                                 !.selectedWidgets = {}]),
              "layout:changed"),
         "selection:changed")

setLayout(s, newLayoutValue) ==
    LET s1 == [s EXCEPT !.layout = newLayoutValue, !.isDirty = FALSE, !.selectedWidgets = {}]
        s2 == snapshot(clear(s1))
    IN  emit(emit(s2, "layout:changed"), "selection:changed")

newLayout(s, width, height) == setLayout(s, BlankLayout(width, height))

fromJSON(s, data) == setLayout(s, data)

\* addWidget returns the widget exactly when the catalog has the type
addWidgetReturns(type) == type \in KnownTypes

\* (variant) addWidget that does not look the type up before it adds
addWidgetUnchecked(s, type, x, y, parentId, newId) ==
    LET widget == NewWidget(newId, type, x, y,
                      IF type \in KnownTypes
                      THEN getDefaultProperties(widgetMetadataByType[type].properties)
                      ELSE <<>>)
        parent == IF parentId = <<>> THEN <<>> ELSE findWidget(s, parentId[1])
        widgets2 ==
            IF parentId # <<>>
            THEN IF parent # <<>>
                 THEN replaceWidget(s.layout.widgets, parentId[1],
                          [parent[1] EXCEPT !.children = Append(@, widget)])
                 ELSE s.layout.widgets
            ELSE Append(s.layout.widgets, widget)
        s1 == [s EXCEPT !.layout.widgets = widgets2, !.isDirty = TRUE]
    IN  emit(snapshot(s1), "widget:added")

\* parentId is <<>> for null; newId is what _generateId() returns
addWidget(s, type, x, y, parentId, newId) ==
    IF type \notin KnownTypes THEN s
    ELSE LET widget == NewWidget(newId, type, x, y,
                           getDefaultProperties(widgetMetadataByType[type].properties))
             parent == IF parentId = <<>> THEN <<>> ELSE findWidget(s, parentId[1])
             widgets2 ==
                 IF parentId # <<>>
                 THEN IF parent # <<>>
                      THEN replaceWidget(s.layout.widgets, parentId[1],
                               [parent[1] EXCEPT !.children = Append(@, widget)])
                      ELSE s.layout.widgets
                 ELSE Append(s.layout.widgets, widget)
             s1 == [s EXCEPT !.layout.widgets = widgets2, !.isDirty = TRUE]
         IN  emit(snapshot(s1), "widget:added")

removeWidget(s, widgetId) ==
    LET r == removeWidgetRecursive(s.layout.widgets, widgetId)
    IN  IF ~r.removed THEN s
        ELSE LET s1 == [s EXCEPT !.layout.widgets = r.widgets,
                                 !.selectedWidgets = @ \ {widgetId},
                                 !.isDirty = TRUE]
             IN  emit(emit(snapshot(s1), "widget:removed"), "selection:changed")

\* Object.assign(widget, updates): updates is a record of some widget fields
assign(widget, updates) ==
    [f \in DOMAIN widget |-> IF f \in DOMAIN updates THEN updates[f] ELSE widget[f]]

\* (variant) updateWidget that takes a snapshot of every update
updateWidgetRecorded(s, widgetId, updates) ==
    LET w == findWidget(s, widgetId)
    IN  IF w = <<>> THEN s
        ELSE emit(snapshot([s EXCEPT !.layout.widgets =
                                        replaceWidget(@, widgetId, assign(w[1], updates)),
                                     !.isDirty = TRUE]),
                  "widget:updated")

\* (variant) updateWidget that reports an update of a widget it did not find
updateWidgetUnguarded(s, widgetId, updates) ==
    LET w == findWidget(s, widgetId)
    IN  emit([s EXCEPT !.layout.widgets = IF w = <<>> THEN @
                                          ELSE replaceWidget(@, widgetId, assign(w[1], updates)),
                       !.isDirty = TRUE],
             "widget:updated")

updateWidget(s, widgetId, updates) ==
    LET w == findWidget(s, widgetId)
    IN  IF w = <<>> THEN s
        ELSE emit([s EXCEPT !.layout.widgets = replaceWidget(@, widgetId, assign(w[1], updates)),
                            !.isDirty = TRUE],
                  "widget:updated")

\* (variant) setWidgetProperty that takes no snapshot
setWidgetPropertyUnrecorded(s, widgetId, propertyName, value) ==
    LET w == findWidget(s, widgetId)
    IN  IF w = <<>> THEN s
        ELSE LET w2 == IF propertyName = "x" THEN [w[1] EXCEPT !.x = value]
                       ELSE IF propertyName = "y" THEN [w[1] EXCEPT !.y = value]
                       ELSE [w[1] EXCEPT !.properties = setProp(@, propertyName, value)]
             IN  emit([s EXCEPT !.layout.widgets = replaceWidget(@, widgetId, w2),
                                !.isDirty = TRUE],
                      "property:changed")

setWidgetProperty(s, widgetId, propertyName, value) ==
    LET w == findWidget(s, widgetId)
    IN  IF w = <<>> THEN s
        ELSE LET w2 == IF propertyName = "x" THEN [w[1] EXCEPT !.x = value]
                       ELSE IF propertyName = "y" THEN [w[1] EXCEPT !.y = value]
                       ELSE [w[1] EXCEPT !.properties = setProp(@, propertyName, value)]
                 s1 == [s EXCEPT !.layout.widgets = replaceWidget(@, widgetId, w2),
                                 !.isDirty = TRUE]
             IN  emit(snapshot(s1), "property:changed")

\* select(widgetIds, addToSelection) with widgetIds given as a set
select(s, widgetIds, addToSelection) ==
    emit([s EXCEPT !.selectedWidgets = (IF addToSelection THEN @ ELSE {}) \cup widgetIds],
         "selection:changed")

clearSelection(s) == emit([s EXCEPT !.selectedWidgets = {}], "selection:changed")

updateCanvas(s, settings) ==
    emit([s EXCEPT !.layout.canvas = assign(@, settings), !.isDirty = TRUE], "canvas:changed")

(***************************************************************************)
(* Canvas: pointer and keyboard handlers                                   *)
(***************************************************************************)
IdleDrag ==
    [isDragging |-> FALSE, widgetId |-> <<>>, startX |-> 0, startY |-> 0,
     startDisplayX |-> 0, startDisplayY |-> 0, offsetX |-> 0, offsetY |-> 0]

IdleResize ==
    [isResizing |-> FALSE, widgetId |-> <<>>, handle |-> <<>>, startX |-> 0, startY |-> 0,
     startWidth |-> 0, startHeight |-> 0, startWidgetX |-> 0, startWidgetY |-> 0]

\* mousedown on the element rendered at `path`, at canvas coordinates coords
widgetMouseDown(s, path, shiftKey, coords) ==
    LET widgetId == widgetAt(s.layout.widgets, path).id
        start(widget, pos) ==
            IF widget = <<>> \/ widget[1].locked THEN s
            ELSE [select(s, {widgetId}, shiftKey) EXCEPT !.dragState =
                    [isDragging |-> TRUE, widgetId |-> <<widgetId>>,
                     startX |-> widget[1].x, startY |-> widget[1].y,
                     startDisplayX |-> pos.x, startDisplayY |-> pos.y,
                     offsetX |-> coords.x - pos.x, offsetY |-> coords.y - pos.y]]
    IN  start(findWidget(s, widgetId), elementPosition(s.layout.widgets, path, 0, 0))

\* mousedown on a resize handle of the element of widgetId
handleMouseDown(s, widgetId, handle, coords) ==
    LET widget == findWidget(s, widgetId)
    IN  IF widget = <<>> \/ widget[1].locked THEN s
        ELSE [s EXCEPT !.resizeState =
                [isResizing |-> TRUE, widgetId |-> <<widgetId>>, handle |-> <<handle>>,
                 startX |-> coords.x, startY |-> coords.y,
                 startWidth |-> effectiveWidth(widget[1]),
                 startHeight |-> effectiveHeight(widget[1]),
                 startWidgetX |-> widget[1].x, startWidgetY |-> widget[1].y]]

\* (variant) a resize in which every handle keeps the opposite edge where it
\* was by shifting the anchor, the far-side handles included
resizedBoxShifting(rs, canvas, coords) ==
    LET deltaX == coords.x - rs.startX
        deltaY == coords.y - rs.startY
        h      == rs.handle[1]
        w1 == IF h \in {"e", "se", "ne"} THEN Max(minSize, rs.startWidth + deltaX)
              ELSE IF h \in {"w", "sw", "nw"} THEN Max(minSize, rs.startWidth - deltaX)
              ELSE rs.startWidth
        h1 == IF h \in {"s", "se", "sw"} THEN Max(minSize, rs.startHeight + deltaY)
              ELSE IF h \in {"n", "ne", "nw"} THEN Max(minSize, rs.startHeight - deltaY)
              ELSE rs.startHeight
        x1 == rs.startWidgetX + (rs.startWidth - w1)
        y1 == rs.startWidgetY + (rs.startHeight - h1)
        g  == canvas.grid_size
    IN  IF canvas.snap_to_grid
        THEN [width |-> mathRound(roundTo(w1, g)), height |-> mathRound(roundTo(h1, g)),
              x |-> mathRound(roundTo(x1, g)), y |-> mathRound(roundTo(y1, g))]
        ELSE [width |-> mathRound(w1), height |-> mathRound(h1),
              x |-> mathRound(x1), y |-> mathRound(y1)]

\* the size and anchor _handleResize computes, before it is committed
resizedBox(rs, canvas, coords) ==
    LET deltaX == coords.x - rs.startX
        deltaY == coords.y - rs.startY
        h      == rs.handle[1]
        west   == h \in {"w", "sw", "nw"}
        east   == h \in {"e", "se", "ne"}
        north  == h \in {"n", "ne", "nw"}
        south  == h \in {"s", "se", "sw"}
        w1 == IF east THEN Max(minSize, rs.startWidth + deltaX)
              ELSE IF west THEN Max(minSize, rs.startWidth - deltaX) ELSE rs.startWidth
        h1 == IF south THEN Max(minSize, rs.startHeight + deltaY)
              ELSE IF north THEN Max(minSize, rs.startHeight - deltaY) ELSE rs.startHeight
        x1 == IF west THEN rs.startWidgetX + (rs.startWidth - w1) ELSE rs.startWidgetX
        y1 == IF north THEN rs.startWidgetY + (rs.startHeight - h1) ELSE rs.startWidgetY
        g  == canvas.grid_size
    IN  IF canvas.snap_to_grid
        THEN [width |-> mathRound(roundTo(w1, g)), height |-> mathRound(roundTo(h1, g)),
              x |-> mathRound(roundTo(x1, g)), y |-> mathRound(roundTo(y1, g))]
        ELSE [width |-> mathRound(w1), height |-> mathRound(h1),
              x |-> mathRound(x1), y |-> mathRound(y1)]

\* (variant) a resize that keeps its result as the display size whatever
\* the type declares
handleResizeAsDisplaySize(s, coords) ==
    LET rs     == s.resizeState
        box    == resizedBox(rs, s.layout.canvas, coords)
        widget == findWidget(s, rs.widgetId[1])
    IN  IF widget = <<>> THEN s
        ELSE LET moved == [widget[1] EXCEPT !.x = box.x, !.y = box.y]
                 sized == setProp(setProp(moved.properties, "_displayWidth", box.width),
                                  "_displayHeight", box.height)
             IN  emit([s EXCEPT !.layout.widgets =
                                   replaceWidget(@, rs.widgetId[1],
                                                 [moved EXCEPT !.properties = sized]),
                                !.isDirty = TRUE],
                      "widget:updated")

handleResize(s, coords) ==
    LET rs     == s.resizeState
        box    == resizedBox(rs, s.layout.canvas, coords)
        widget == findWidget(s, rs.widgetId[1])
    IN  IF widget = <<>> THEN s
        ELSE LET md        == metadataOf(widget[1].type)
                 propNames == IF md = <<>> THEN {}
                              ELSE {md[1].properties[i].name : i \in DOMAIN md[1].properties}
                 moved     == [widget[1] EXCEPT !.x = box.x, !.y = box.y]
                 props     == moved.properties
                 sized     ==
                     IF "width" \in propNames /\ "height" \in propNames
                     THEN setProp(setProp(props, "width", box.width), "height", box.height)
                     ELSE IF "size" \in propNames
                          THEN setProp(props, "size", Min(box.width, box.height))
                          ELSE setProp(setProp(props, "_displayWidth", box.width),
                                       "_displayHeight", box.height)
             IN  emit([s EXCEPT !.layout.widgets =
                                   replaceWidget(@, rs.widgetId[1],
                                                 [moved EXCEPT !.properties = sized]),
                                !.isDirty = TRUE],
                      "widget:updated")

onMouseMove(s, coords) ==
    IF s.resizeState.isResizing THEN handleResize(s, coords)
    ELSE IF ~s.dragState.isDragging THEN s
    ELSE LET ds  == s.dragState
             cv  == s.layout.canvas
             dx0 == mathRound(coords.x - ds.offsetX)
             dy0 == mathRound(coords.y - ds.offsetY)
             dx1 == IF cv.snap_to_grid THEN roundTo(dx0, cv.grid_size) ELSE dx0
             dy1 == IF cv.snap_to_grid THEN roundTo(dy0, cv.grid_size) ELSE dy0
             newDisplayX == Max(0, dx1)
             newDisplayY == Max(0, dy1)
             newX == mathRound(ds.startX + (newDisplayX - ds.startDisplayX))
             newY == mathRound(ds.startY + (newDisplayY - ds.startDisplayY))
         IN  updateWidget(s, ds.widgetId[1], [x |-> newX, y |-> newY])

onMouseUp(s) ==
    LET s1 == IF s.resizeState.isResizing
              THEN saveSnapshot([s EXCEPT !.resizeState.isResizing = FALSE])
              ELSE s
    IN  IF ~s1.dragState.isDragging THEN s1
        ELSE LET s2     == [s1 EXCEPT !.dragState.isDragging = FALSE]
                 widget == findWidget(s2, s2.dragState.widgetId[1])
             IN  IF widget # <<>> /\ (widget[1].x # s2.dragState.startX
                                      \/ widget[1].y # s2.dragState.startY)
                 THEN saveSnapshot(s2)
                 ELSE s2

\* drop of a palette item at canvas coordinates coords; tooSoon says that the
\* previous drop was less than 300 ms ago
\* (variant) a drop handler that takes every drop
onDropUndebounced(s, widgetType, coords, newId) ==
    LET cv == s.layout.canvas
        x  == IF cv.snap_to_grid THEN roundTo(mathRound(coords.x), cv.grid_size)
              ELSE mathRound(coords.x)
        y  == IF cv.snap_to_grid THEN roundTo(mathRound(coords.y), cv.grid_size)
              ELSE mathRound(coords.y)
        added(s1) == IF addWidgetReturns(widgetType) THEN select(s1, {newId}, FALSE)
                     ELSE s1
    IN  added(addWidget([s EXCEPT !.lastDropTime = s.now], widgetType, x, y, <<>>, newId))

\* Canvas._onDrop of a palette item; s.now is what Date.now() returns
onDrop(s, widgetType, coords, newId) ==
    IF s.lastDropTime # 0 /\ s.now - s.lastDropTime < dropDebounce THEN s
    ELSE LET cv == s.layout.canvas
             x  == IF cv.snap_to_grid THEN roundTo(mathRound(coords.x), cv.grid_size)
                   ELSE mathRound(coords.x)
             y  == IF cv.snap_to_grid THEN roundTo(mathRound(coords.y), cv.grid_size)
                   ELSE mathRound(coords.y)
             added(s1) == IF addWidgetReturns(widgetType) THEN select(s1, {newId}, FALSE)
                          ELSE s1
         IN  added(addWidget([s EXCEPT !.lastDropTime = s.now], widgetType, x, y, <<>>,
                             newId))

\* selected.forEach(id => this.state.removeWidget(id))
RECURSIVE removeEach(_, _)
removeEach(s, selected) ==
    IF selected = <<>> THEN s
    ELSE removeEach(removeWidget(s, Head(selected)), Tail(selected))

\* keydown Delete / Backspace: `selected` is Array.from(selectedWidgets),
\* the selection in the order the ids were added to the Set
onKeyDownDelete(s, selected) ==
    IF Len(selected) > 0 THEN removeEach(s, selected) ELSE s

\* (variant) the arrow keys moving the locked widgets as well
RECURSIVE nudgeEachLockedToo(_, _, _, _)
nudgeEachLockedToo(s, widgets, dx, dy) ==
    IF widgets = <<>> THEN s
    ELSE nudgeEachLockedToo(updateWidget(s, Head(widgets).id,
                                [x |-> Head(widgets).x + dx, y |-> Head(widgets).y + dy]),
                            Tail(widgets), dx, dy)

\* widgets.forEach(widget => { if (!widget.locked) updateWidget(widget.id, ...) })
RECURSIVE nudgeEach(_, _, _, _)
nudgeEach(s, widgets, dx, dy) ==
    IF widgets = <<>> THEN s
    ELSE nudgeEach(IF ~Head(widgets).locked
                   THEN updateWidget(s, Head(widgets).id,
                            [x |-> Head(widgets).x + dx, y |-> Head(widgets).y + dy])
                   ELSE s,
                   Tail(widgets), dx, dy)

\* EditorState.getSelectedWidgets, `selected` being Array.from(selectedWidgets)
RECURSIVE getSelectedWidgets(_, _)
getSelectedWidgets(s, selected) ==
    IF selected = <<>> THEN <<>>
    ELSE findWidget(s, Head(selected)) \o getSelectedWidgets(s, Tail(selected))

\* keydown of an arrow key
onKeyDownArrow(s, key, shiftKey, selected) ==
    LET delta == IF shiftKey THEN px(10) ELSE px(1)
        dx == IF key = "ArrowLeft" THEN -delta ELSE IF key = "ArrowRight" THEN delta ELSE 0
        dy == IF key = "ArrowUp" THEN -delta ELSE IF key = "ArrowDown" THEN delta ELSE 0
        moved(widgets) == IF Len(widgets) = 0 THEN s
                          ELSE saveSnapshot(nudgeEach(s, widgets, dx, dy))
    IN  moved(getSelectedWidgets(s, selected))

\* keydown Ctrl+A: select(layout.widgets.map(w => w.id))
onKeyDownSelectAll(s) ==
    select(s, {s.layout.widgets[i].id : i \in DOMAIN s.layout.widgets}, FALSE)

\* the orders a Set holding exactly these ids may iterate in
Orders(set) ==
    { q \in [1..Cardinality(set) -> set] : \A i, j \in DOMAIN q : i # j => q[i] # q[j] }

(***************************************************************************)
(* Inputs                                                                  *)
(***************************************************************************)
\* canvas coordinates the pointer is seen at
Pointers == { [x |-> px(110), y |-> px(110)], [x |-> px(160), y |-> px(110)] }

\* the milliseconds between a drop event and the event before it
DropGaps == { 299, 300 }

\* where addWidget is asked to put a widget
DropPoints == { [x |-> px(100), y |-> px(100)] }

\* the resize handles exercised
Handles == {"e", "s", "se", "nw"}

\* documents the loader (storage, file, predefined) hands to setLayout
NestedLayout ==
    [canvas  |-> BlankLayout(px(1920), px(1080)).canvas,
     widgets |-> << [NewWidget("w_a", "composite", px(100), px(100), <<>>) EXCEPT !.children =
                        << NewWidget("w_b", "text", px(10), px(10), << <<"align", "left">> >>) >>] >>]

OneWidgetLayout ==
    [canvas  |-> BlankLayout(px(1920), px(1080)).canvas,
     widgets |-> << NewWidget("w_a", "text", px(100), px(100), << <<"align", "left">> >>) >>]

\* a centred text that an earlier resize left 75 pixels wide, its anchor
\* off the grid
CentredLayout ==
    [canvas  |-> BlankLayout(px(1920), px(1080)).canvas,
     widgets |-> << NewWidget("w_a", "text", px(105), px(100),
                              << <<"align", "center">>, <<"_displayWidth", px(75)>>,
                                 <<"_displayHeight", px(50)>> >>) >>]

SavedLayouts == { NestedLayout, OneWidgetLayout, CentredLayout }

\* templates: one widget 60 pixels wide whose size is held as width and
\* height, as size, or as the display size an earlier resize left, on a
\* canvas with a fine or a coarse grid, snapping on or off
GridSizes == { px(10), px(50) }

TemplateWidgets ==
    { NewWidget("w_a", "bar", px(100), px(100),
                << <<"width", px(60)>>, <<"height", px(50)>> >>),
      NewWidget("w_a", "moving_map", px(100), px(100), << <<"size", px(60)>> >>),
      NewWidget("w_a", "text", px(100), px(100),
                << <<"align", "left">>, <<"_displayWidth", px(60)>>,
                   <<"_displayHeight", px(50)>> >>) }

Templates ==
    { [canvas  |-> [BlankLayout(px(1920), px(1080)).canvas
                      EXCEPT !.grid_size = g, !.snap_to_grid = snap],
       widgets |-> <<w>>] : w \in TemplateWidgets, g \in GridSizes, snap \in BOOLEAN }

\* the anchors updateWidget is called with
NudgedTo == { [x |-> px(101), y |-> px(100)] }

\* the parentId values addWidget is called with (<<>> is null)
ParentIds == { <<>>, <<"w_a">> }

\* property commits of the properties panel
PropertyEdits == { <<"x", px(150)>>, <<"align", "right">>, <<"align", "left">> }

(***************************************************************************)
(* Hit testing: the element a mousedown at coords is delivered to          *)
(***************************************************************************)
\* p is painted before q (document order of the rendered elements)
PaintedBefore(p, q) ==
    \/ Len(p) < Len(q) /\ SubSeq(q, 1, Len(p)) = p
    \/ \E i \in 1..Min(Len(p), Len(q)) :
          /\ SubSeq(p, 1, i - 1) = SubSeq(q, 1, i - 1)
          /\ p[i] < q[i]

Covers(widgets, path, coords) ==
    LET inside(pos, r) ==
            /\ pos.x <= coords.x /\ coords.x <= pos.x + r.width
            /\ pos.y <= coords.y /\ coords.y <= pos.y + r.height
    IN  inside(elementPosition(widgets, path, 0, 0), renderWidget(widgetAt(widgets, path)))

ElementAt(widgets, coords) ==
    { p \in renderedPaths(widgets, <<>>) :
        /\ Covers(widgets, p, coords)
        /\ \A q \in renderedPaths(widgets, <<>>) :
              Covers(widgets, q, coords) => (q = p \/ PaintedBefore(q, p)) }

(***************************************************************************)
(* The state machine                                                       *)
(***************************************************************************)
\* what `last` records of the handler that ran last: its name, whether a
\* listener of layout:restored re-entered saveSnapshot, whether the handler
\* before it was the same one, the length of the history and the cursor
\* before it ran, and how far the sequence drag-release, undo, redo has got
\* (chain 1, 2, 3) with the anchor the drag was released at; `id`, `parent`
\* and `type` are the widget id, the parentId and the type an EditorState
\* method was called with (for addWidget, `id` is the id it generated); `at`
\* is <<coords>> for a pointer move seen at coords; `shift` says that the
\* modifier was held in a pointer or key event, `key` is the key of a key
\* event; for a mousedown on a widget element, `id` is the id of its widget
Did(op) ==
    [op |-> op, reenter |-> FALSE, again |-> FALSE, len |-> 0, idx |-> -1,
     chain |-> 0, upX |-> 0, upY |-> 0, id |-> "", parent |-> <<>>, type |-> "",
     at |-> <<>>, shift |-> FALSE, key |-> "", lockedDown |-> <<>>]

\* an EditorState method was called with this widget id
Called(op, id) == [Did(op) EXCEPT !.id = id]

\* the state after the constructors of EditorState, HistoryManager and Canvas
Constructed ==
    [layout |-> NoLayout, selectedWidgets |-> {}, isDirty |-> FALSE,
     listeners |-> CanvasListeners, history |-> <<>>, currentIndex |-> -1, lastSnapshot |-> <<>>, isRestoring |-> FALSE,
     dragState |-> IdleDrag, resizeState |-> IdleResize, handles |-> {},
     lastDropTime |-> 0, now |-> StartTime, emitted |-> <<>>]

\* the variables hold the program state s, no handler having been counted
Starts(s) ==
    /\ layout = s.layout
    /\ selectedWidgets = s.selectedWidgets
    /\ isDirty = s.isDirty
    /\ listeners = s.listeners
    /\ history = s.history
    /\ currentIndex = s.currentIndex
    /\ lastSnapshot = s.lastSnapshot
    /\ isRestoring = s.isRestoring
    /\ dragState = s.dragState
    /\ resizeState = s.resizeState
    /\ handles = s.handles
    /\ lastDropTime = s.lastDropTime
    /\ now = s.now
    /\ emitted = <<>>
    /\ steps = 0
    /\ last = Did("init")
    /\ debouncer = PreviewDebouncer
    /\ calls = {}
    /\ modal = RenderModal
    /\ server = PageLoaded
    /\ answered = <<>>

Init == Starts(Constructed)

\* the handler's result becomes the next state; the handlers run before a
\* document is set are not counted
Becomes(s, l) ==
    /\ layout' = s.layout
    /\ selectedWidgets' = s.selectedWidgets
    /\ isDirty' = s.isDirty
    /\ listeners' = s.listeners
    /\ history' = s.history
    /\ currentIndex' = s.currentIndex
    /\ lastSnapshot' = s.lastSnapshot
    /\ isRestoring' = s.isRestoring
    /\ dragState' = s.dragState
    /\ resizeState' = s.resizeState
    /\ handles' = s.handles
    /\ lastDropTime' = s.lastDropTime
    /\ now' = s.now
    /\ emitted' = s.emitted
    /\ steps' = IF layout = NoLayout THEN 0 ELSE steps + 1
    /\ last' = [l EXCEPT !.again = (l.op = last.op), !.len = Len(history),
                          !.idx = currentIndex,
                          !.lockedDown =
                              IF l.op \in {"widgetMouseDown", "handleMouseDown"} THEN @
                              ELSE IF l.op = "mouseUp" THEN <<>> ELSE last.lockedDown]
    /\ UNCHANGED <<preview, rendering>>

HasLayout == layout # NoLayout
InGesture == dragState.isDragging \/ resizeState.isResizing

\* the anchor of the first widget with this id in a forest, <<>> if none
anchorIn(widgets, widgetId) ==
    LET w == findWidgetRecursive(widgets, widgetId)
    IN  IF w = <<>> THEN <<>> ELSE <<w[1].x, w[1].y>>

(***************************************************************************)
(* PreviewDebouncer. A timer and an AbortController are either null        *)
(* (<<>>) or set; a controller is known by the number of its creation, and *)
(* a callback in flight by the controller whose signal it was given.       *)
(***************************************************************************)
\* the debouncer and the callbacks in flight, as one record
Previewing == [d |-> debouncer, calls |-> calls]

\* AbortController.abort(): the callback holding its signal sees it aborted
abort(cs, controller) ==
    { IF c.signal = controller THEN [c EXCEPT !.aborted = TRUE] ELSE c : c \in cs }

\* PreviewDebouncer.cancel
cancel(p) ==
    [d     |-> [p.d EXCEPT !.timeoutId = FALSE, !.abortController = <<>>],
     calls |-> IF p.d.abortController # <<>> THEN abort(p.calls, p.d.abortController[1])
               ELSE p.calls]

\* this.abortController = new AbortController(); await callback(signal):
\* the callback runs up to its first await and is in flight from then on
started(p) ==
    [d     |-> [p.d EXCEPT !.abortController = <<p.d.created + 1>>, !.created = @ + 1],
     calls |-> p.calls \cup {[signal |-> p.d.created + 1, aborted |-> FALSE]}]

\* PreviewDebouncer.request: the timer is set anew
request(p) ==
    LET cancelled == cancel([p EXCEPT !.d.timeoutId = FALSE])
    IN  [cancelled EXCEPT !.d.timeoutId = TRUE]

\* the function request() gave to setTimeout
onTimeout(p) == started([p EXCEPT !.d.timeoutId = FALSE])

\* PreviewDebouncer.requestImmediate, up to its await
requestImmediate(p) == started(cancel([p EXCEPT !.d.timeoutId = FALSE]))

\* the callback c settles (it returns or throws, an AbortError included)
\* and the finally block of its caller runs
settled(p, c) ==
    [d |-> [p.d EXCEPT !.abortController = <<>>], calls |-> p.calls \ {c}]

\* PreviewDebouncer.isPending
isPending(d) == d.timeoutId \/ d.abortController # <<>>

PreviewBecomes(p) ==
    /\ debouncer' = p.d
    /\ calls' = p.calls
    /\ UNCHANGED <<editor, rendering>>

DoRequest == PreviewBecomes(request(Previewing))

DoRequestImmediate ==
    /\ debouncer.created < MaxPreviewCalls
    /\ PreviewBecomes(requestImmediate(Previewing))

DoCancel == PreviewBecomes(cancel(Previewing))

DoTimeout ==
    /\ debouncer.timeoutId
    /\ debouncer.created < MaxPreviewCalls
    /\ PreviewBecomes(onTimeout(Previewing))

DoSettle == \E c \in calls : PreviewBecomes(settled(Previewing, c))

NextPreview ==
    \/ DoRequest
    \/ DoRequestImmediate
    \/ DoCancel
    \/ DoTimeout
    \/ DoSettle

SpecPreview == Init /\ [][NextPreview]_vars

(***************************************************************************)
(* RenderModal. A handler works on the modal and on the requests in flight *)
(* (r.m and r.s); log polling reads and writes none of the fields below    *)
(* and is left out.                                                        *)
(***************************************************************************)
Rendering == [m |-> modal, s |-> server]

Statuses == {"running", "completed"}

isTerminal(status) == status \in { <<"completed">>, <<"failed">>, <<"cancelled">> }

stopPolling(r) == [r EXCEPT !.m.polling = FALSE]

\* _updateStatus up to its await: the request for this.jobId is sent
updateStatus(r) ==
    IF r.m.jobId = <<>> \/ ~r.m.isOpen THEN r
    ELSE IF r.m.statusRequestPending THEN r
    ELSE [r EXCEPT !.m.statusRequestPending = TRUE,
                   !.s.statusRequests = Append(@, r.m.jobId[1])]

resetUI(r) == [r EXCEPT !.m.closeShown = FALSE, !.m.shown = <<>>, !.m.shownJob = <<>>]

startPolling(r) == updateStatus([stopPolling(r) EXCEPT !.m.polling = TRUE])

open(r) == startPolling(resetUI([r EXCEPT !.m.isOpen = TRUE]))

close(r) == [stopPolling([r EXCEPT !.m.isOpen = FALSE]) EXCEPT !.m.jobId = <<>>]

\* _handleModalClose
handleModalClose(r) ==
    IF r.m.jobId = <<>> THEN close(r)
    ELSE IF isTerminal(r.m.currentStatus) THEN close(r)
    ELSE r

\* _updateUI: the status text, and the close buttons for a terminal status
updateUI(r, job, status) ==
    [r EXCEPT !.m.shown = <<status>>, !.m.shownJob = <<job>>,
              !.m.closeShown = @ \/ isTerminal(<<status>>)]

\* _updateStatus after its await: the i-th request in flight is answered
\* with a status, or fails (ok = FALSE)
statusAnswered(r, i, ok, status) ==
    LET job  == r.s.statusRequests[i]
        rest == [r EXCEPT !.s.statusRequests =
                    SubSeq(@, 1, i - 1) \o SubSeq(@, i + 1, Len(@))]
        done ==
            IF ok
            THEN LET seen == updateUI([rest EXCEPT !.m.currentStatus = <<status>>,
                                                   !.m.consecutiveFailures = 0],
                                      job, status)
                 IN  IF isTerminal(<<status>>) THEN stopPolling(seen) ELSE seen
            ELSE LET failed == [rest EXCEPT !.m.consecutiveFailures = @ + 1]
                 IN  IF failed.m.consecutiveFailures >= MAX_FAILURES
                     THEN [stopPolling(failed) EXCEPT !.m.closeShown = TRUE]
                     ELSE failed
    IN  [done EXCEPT !.m.statusRequestPending = FALSE]

\* startRender after the answer to /api/render/start: the job is opened
renderStarted(r, job) == open([r EXCEPT !.m.jobId = <<job>>])

RenderBecomes(r, response) ==
    /\ modal' = r.m
    /\ server' = r.s
    /\ answered' = response
    /\ UNCHANGED <<editor, preview>>

\* the answer to _checkActiveRender's request: no job, or the job that is
\* active (0 is a job started before the page was loaded)
DoCheckActiveRender ==
    /\ server.checking
    /\ \/ RenderBecomes([Rendering EXCEPT !.s.checking = FALSE], <<>>)
       \/ \E job \in 0..server.started :
             RenderBecomes(renderStarted([Rendering EXCEPT !.s.checking = FALSE], job), <<>>)

\* a click on the render button, which the open modal covers
DoRenderClick ==
    /\ ~modal.isOpen
    /\ server.starting < MaxStarting
    /\ server.started + server.starting < MaxJobs
    /\ RenderBecomes([Rendering EXCEPT !.s.starting = @ + 1], <<>>)

\* the answer to /api/render/start: a new job, or an error
DoRenderStarted ==
    /\ server.starting > 0
    /\ \/ RenderBecomes(renderStarted([Rendering EXCEPT !.s.starting = @ - 1,
                                                          !.s.started = @ + 1],
                                       server.started + 1), <<>>)
       \/ RenderBecomes([Rendering EXCEPT !.s.starting = @ - 1], <<>>)

\* the interval of _startPolling fires
DoPollTick ==
    /\ modal.polling
    /\ RenderBecomes(updateStatus(Rendering), <<>>)

DoStatusAnswered ==
    \E i \in DOMAIN server.statusRequests :
       \/ \E status \in Statuses :
             RenderBecomes(statusAnswered(Rendering, i, TRUE, status),
                           <<server.statusRequests[i]>>)
       \/ RenderBecomes(statusAnswered(Rendering, i, FALSE, ""),
                        <<server.statusRequests[i]>>)

\* a click on the Close button, when it is displayed
DoCloseClick ==
    /\ modal.isOpen
    /\ modal.closeShown
    /\ RenderBecomes(close(Rendering), <<>>)

\* a click on the x of the header, when it is displayed
DoModalCloseClick ==
    /\ modal.isOpen
    /\ modal.closeShown
    /\ RenderBecomes(handleModalClose(Rendering), <<>>)

NextRender ==
    \/ DoCheckActiveRender
    \/ DoRenderClick
    \/ DoRenderStarted
    \/ DoPollTick
    \/ DoStatusAnswered
    \/ DoCloseClick
    \/ DoModalCloseClick

SpecRender == Init /\ [][NextRender]_vars

(***************************************************************************)
(* The handlers as steps                                                   *)
(***************************************************************************)
\* initEditor: the saved layout is restored, or a blank one is created
DoInitEditor ==
    /\ ~HasLayout
    /\ \/ \E saved \in SavedLayouts : Becomes(setLayout(State, saved), Did("setLayout"))
       \/ Becomes(newLayout(State, px(1920), px(1080)), Did("newLayout"))

DoNewLayout ==
    /\ HasLayout
    /\ Becomes(newLayout(State, px(1920), px(1080)), Did("newLayout"))

DoLoadLayout ==
    /\ HasLayout
    /\ \E data \in SavedLayouts : Becomes(fromJSON(State, data), Did("fromJSON"))

\* a template is opened in the editor that holds no document yet
DoLoadTemplate ==
    /\ ~HasLayout
    /\ \E data \in Templates : Becomes(setLayout(State, data), Did("setLayout"))

DoAddWidget ==
    /\ HasLayout
    /\ CountWidgets(layout.widgets) < MaxWidgets
    /\ \E type \in PaletteTypes \cup {UnknownType}, at \in DropPoints,
          parentId \in ParentIds, newId \in Ids :
          Becomes(addWidget(State, type, at.x, at.y, parentId, newId),
                  [Called("addWidget", newId) EXCEPT !.parent = parentId, !.type = type])

DoDrop ==
    /\ HasLayout
    /\ CountWidgets(layout.widgets) < MaxWidgets
    /\ \E type \in PaletteTypes \cup {UnknownType}, at \in DropPoints,
          gap \in DropGaps, newId \in Ids :
          Becomes(onDrop([State EXCEPT !.now = now + gap], type, at, newId),
                  [Called("drop", newId) EXCEPT !.type = type, !.at = <<at>>])

DoRemoveWidget ==
    /\ HasLayout
    /\ \E id \in Ids : Becomes(removeWidget(State, id), Called("removeWidget", id))

\* updateWidget(widgetId, updates) called with a new anchor
DoUpdateWidget ==
    /\ HasLayout
    /\ \E id \in Ids, at \in NudgedTo :
          Becomes(updateWidget(State, id, [x |-> at.x, y |-> at.y]), Called("updateWidget", id))

\* the visibility and lock buttons of the layers panel
DoToggleVisible ==
    /\ HasLayout
    /\ \E id \in AllIds(layout.widgets) :
          Becomes(updateWidget(State, id, [visible |-> ~findWidget(State, id)[1].visible]),
                  Called("updateWidget", id))

DoToggleLocked ==
    /\ HasLayout
    /\ \E id \in AllIds(layout.widgets) :
          Becomes(updateWidget(State, id, [locked |-> ~findWidget(State, id)[1].locked]),
                  Called("updateWidget", id))

DoSetWidgetProperty ==
    /\ HasLayout
    /\ \E id \in Ids, e \in PropertyEdits :
          Becomes(setWidgetProperty(State, id, e[1], e[2]), Called("setWidgetProperty", id))

\* a click on an item of the layers panel
DoLayerClick ==
    /\ HasLayout
    /\ \E id \in AllIds(layout.widgets), shiftKey \in BOOLEAN :
          Becomes(select(State, {id}, shiftKey), Did("select"))

\* a click on the empty canvas
DoCanvasClick ==
    /\ HasLayout
    /\ Becomes(clearSelection(State), Did("clearSelection"))

\* the snap toggle of the toolbar
DoToggleSnap ==
    /\ HasLayout
    /\ Becomes(updateCanvas(State, [snap_to_grid |-> ~layout.canvas.snap_to_grid]),
               Did("updateCanvas"))

\* mousedown on a widget element: it goes to the topmost element under the
\* pointer, which stops its propagation
DoWidgetMouseDown ==
    /\ HasLayout
    /\ \E coords \in Pointers, shiftKey \in BOOLEAN :
       \E path \in ElementAt(layout.widgets, coords) :
          Becomes(widgetMouseDown(State, path, shiftKey, coords),
                  [Called("widgetMouseDown", widgetAt(layout.widgets, path).id)
                     EXCEPT !.shift = shiftKey,
                            !.lockedDown = IF widgetAt(layout.widgets, path).locked
                                           THEN <<widgetAt(layout.widgets, path).id>>
                                           ELSE <<>>])

DoHandleMouseDown ==
    /\ HasLayout
    /\ \E id \in handles, h \in Handles, coords \in Pointers :
          Becomes(handleMouseDown(State, id, h, coords),
                  [Did("handleMouseDown") EXCEPT
                     !.lockedDown = IF findWidget(State, id) # <<>> /\ findWidget(State, id)[1].locked
                                    THEN <<id>> ELSE <<>>])

DoMouseMove ==
    /\ HasLayout
    /\ InGesture
    /\ \E coords \in Pointers :
          Becomes(onMouseMove(State, coords), [Did("mouseMove") EXCEPT !.at = <<coords>>])

\* a pointer move while no gesture is active
DoIdleMouseMove ==
    /\ HasLayout
    /\ ~InGesture
    /\ \E coords \in Pointers :
          Becomes(onMouseMove(State, coords), [Did("mouseMove") EXCEPT !.at = <<coords>>])

\* mouseup; `chain` = 1 records that it ended a drag that changed the anchor
DoMouseUp ==
    /\ HasLayout
    /\ LET released(anchor) ==
               IF /\ dragState.isDragging
                  /\ anchor # <<>>
                  /\ anchor # <<dragState.startX, dragState.startY>>
               THEN [Did("mouseUp") EXCEPT !.chain = 1, !.upX = anchor[1], !.upY = anchor[2]]
               ELSE Did("mouseUp")
       IN  Becomes(onMouseUp(State),
                   released(IF dragState.widgetId = <<>> THEN <<>>
                            ELSE anchorIn(layout.widgets, dragState.widgetId[1])))

DoKeyDelete ==
    /\ HasLayout
    /\ \E selected \in Orders(selectedWidgets) :
          Becomes(onKeyDownDelete(State, selected), Did("keyDelete"))

\* the arrow keys pressed
ArrowKeys == {"ArrowLeft", "ArrowDown"}

DoKeyArrow ==
    /\ HasLayout
    /\ \E key \in ArrowKeys, shiftKey \in BOOLEAN, selected \in Orders(selectedWidgets) :
          Becomes(onKeyDownArrow(State, key, shiftKey, selected),
                  [Did("keyArrow") EXCEPT !.key = key, !.shift = shiftKey])

DoKeySelectAll ==
    /\ HasLayout
    /\ Becomes(onKeyDownSelectAll(State), Did("keySelectAll"))

\* undo() and redo(); `chain` follows a drag's mouseup through them
DoUndo ==
    \E reenter \in BOOLEAN :
       Becomes(undo(State, reenter),
               [(IF last.chain = 1 THEN [last EXCEPT !.chain = 2] ELSE Did("undo"))
                   EXCEPT !.op = "undo", !.reenter = reenter])

DoRedo ==
    \E reenter \in BOOLEAN :
       Becomes(redo(State, reenter),
               [(IF last.chain = 2 THEN [last EXCEPT !.chain = 3] ELSE Did("redo"))
                   EXCEPT !.op = "redo", !.reenter = reenter])

DoSaveSnapshot ==
    Becomes(saveSnapshot(State), Did("saveSnapshot"))

\* the Save button of the toolbar: the layout goes to the browser storage
\* and the document is clean
DoSaveLayout ==
    /\ HasLayout
    /\ Becomes([State EXCEPT !.isDirty = FALSE], Did("saveLayout"))

(***************************************************************************)
(* Editing session: every handler, a few steps deep                        *)
(***************************************************************************)
InSession == steps < MaxSteps

InitEditor == InSession /\ DoInitEditor
NewLayout == InSession /\ DoNewLayout
LoadLayout == InSession /\ DoLoadLayout
AddWidget == InSession /\ DoAddWidget
Drop == InSession /\ DoDrop
RemoveWidget == InSession /\ DoRemoveWidget
UpdateWidget == InSession /\ DoUpdateWidget
ToggleVisible == InSession /\ DoToggleVisible
ToggleLocked == InSession /\ DoToggleLocked
SetWidgetProperty == InSession /\ DoSetWidgetProperty
LayerClick == InSession /\ DoLayerClick
CanvasClick == InSession /\ DoCanvasClick
ToggleSnap == InSession /\ DoToggleSnap
WidgetMouseDown == InSession /\ DoWidgetMouseDown
HandleMouseDown == InSession /\ DoHandleMouseDown
MouseMove == InSession /\ DoMouseMove
MouseUp == InSession /\ DoMouseUp
KeyDelete == InSession /\ DoKeyDelete
KeySelectAll == InSession /\ DoKeySelectAll
Undo == InSession /\ DoUndo
Redo == InSession /\ DoRedo
SaveSnapshot == InSession /\ DoSaveSnapshot
SaveLayout == InSession /\ DoSaveLayout

Next ==
    \/ InitEditor
    \/ NewLayout
    \/ LoadLayout
    \/ AddWidget
    \/ Drop
    \/ RemoveWidget
    \/ UpdateWidget
    \/ ToggleVisible
    \/ ToggleLocked
    \/ SetWidgetProperty
    \/ LayerClick
    \/ CanvasClick
    \/ ToggleSnap
    \/ WidgetMouseDown
    \/ HandleMouseDown
    \/ MouseMove
    \/ MouseUp
    \/ KeyDelete
    \/ KeySelectAll
    \/ Undo
    \/ Redo
    \/ SaveSnapshot
    \/ SaveLayout

Spec == Init /\ [][Next]_vars

(***************************************************************************)
(* Pointer session: the pointer handlers with undo / redo and the snap     *)
(* toggle, deep enough for whole gestures followed by undo and redo        *)
(***************************************************************************)
InGestureSession == steps < MaxGestureSteps

GestureInitEditor == InGestureSession /\ DoInitEditor
GestureToggleSnap == InGestureSession /\ DoToggleSnap
GestureWidgetMouseDown == InGestureSession /\ DoWidgetMouseDown
GestureHandleMouseDown == InGestureSession /\ DoHandleMouseDown
GestureMouseMove == InGestureSession /\ DoMouseMove
GestureMouseUp == InGestureSession /\ DoMouseUp
GestureUndo == InGestureSession /\ DoUndo
GestureRedo == InGestureSession /\ DoRedo

NextGesture ==
    \/ GestureInitEditor
    \/ GestureToggleSnap
    \/ GestureWidgetMouseDown
    \/ GestureHandleMouseDown
    \/ GestureMouseMove
    \/ GestureMouseUp
    \/ GestureUndo
    \/ GestureRedo

SpecGesture == Init /\ [][NextGesture]_vars

(***************************************************************************)
(* Resize session: a template is opened, its widget is selected by a short *)
(* drag and one of its handles is pulled                                   *)
(***************************************************************************)
InResizeSession == steps < MaxResizeSteps

ResizeLoadTemplate == InResizeSession /\ DoLoadTemplate
ResizeWidgetMouseDown == InResizeSession /\ DoWidgetMouseDown
ResizeHandleMouseDown == InResizeSession /\ DoHandleMouseDown
ResizeMouseMove == InResizeSession /\ DoMouseMove
ResizeMouseUp == InResizeSession /\ DoMouseUp

NextResize ==
    \/ ResizeLoadTemplate
    \/ ResizeWidgetMouseDown
    \/ ResizeHandleMouseDown
    \/ ResizeMouseMove
    \/ ResizeMouseUp

SpecResize == Init /\ [][NextResize]_vars

(***************************************************************************)
(* Lock session: the lock button of the layers panel and the pointer       *)
(* handlers                                                                *)
(***************************************************************************)
InLockSession == steps < MaxLockSteps

LockInitEditor == InLockSession /\ DoInitEditor
LockToggleLocked == InLockSession /\ DoToggleLocked
LockWidgetMouseDown == InLockSession /\ DoWidgetMouseDown
LockMouseMove == InLockSession /\ DoMouseMove
LockIdleMouseMove == InLockSession /\ DoIdleMouseMove
LockMouseUp == InLockSession /\ DoMouseUp

NextLock ==
    \/ LockInitEditor
    \/ LockToggleLocked
    \/ LockWidgetMouseDown
    \/ LockMouseMove
    \/ LockIdleMouseMove
    \/ LockMouseUp

SpecLock == Init /\ [][NextLock]_vars

(***************************************************************************)
(* Long session: a document that has been edited until the history is one  *)
(* entry short of full, then a few more handlers                           *)
(***************************************************************************)
\* n times the snap toggle of the toolbar followed by saveSnapshot(), while
\* the history has room: the first half of them, then the others
RECURSIVE toggledAndSaved(_, _)
toggledAndSaved(s, n) ==
    IF Len(s.history) >= maxHistory \/ n = 0 THEN s
    ELSE IF n = 1
    THEN saveSnapshot(updateCanvas(s, [snap_to_grid |-> ~s.layout.canvas.snap_to_grid]))
    ELSE toggledAndSaved(toggledAndSaved(s, n \div 2), n - (n \div 2))

InitLong == Starts(toggledAndSaved(setLayout(Constructed, OneWidgetLayout), maxHistory - 2))

InLongSession == steps < MaxLongSteps

LongNewLayout == InLongSession /\ DoNewLayout
LongAddWidget == InLongSession /\ DoAddWidget
LongRemoveWidget == InLongSession /\ DoRemoveWidget
LongSetWidgetProperty == InLongSession /\ DoSetWidgetProperty
LongToggleSnap == InLongSession /\ DoToggleSnap
LongSaveSnapshot == InLongSession /\ DoSaveSnapshot
LongUndo == InLongSession /\ DoUndo
LongRedo == InLongSession /\ DoRedo

NextLong ==
    \/ LongNewLayout
    \/ LongAddWidget
    \/ LongRemoveWidget
    \/ LongSetWidgetProperty
    \/ LongToggleSnap
    \/ LongSaveSnapshot
    \/ LongUndo
    \/ LongRedo

SpecLong == InitLong /\ [][NextLong]_vars

(***************************************************************************)
(* Container session: a loaded document with one container, whose children *)
(* are of several sizes, alignments and visibilities, and a few handlers   *)
(* that change what the container holds                                    *)
(***************************************************************************)
\* the boxes (anchor and size, in pixels) the children are saved with
ChildBoxes ==
    { [x |-> 0, y |-> 0, width |-> 50, height |-> 50],
      [x |-> 100, y |-> 100, width |-> 20, height |-> 20],
      [x |-> 90, y |-> 0, width |-> 75, height |-> 50] }

Aligns == {"left", "right", "center"}

\* a text widget saved after a resize gave it the size of the box
Child(id, box, align, visible) ==
    [NewWidget(id, "text", px(box.x), px(box.y),
               << <<"align", align>>, <<"_displayWidth", px(box.width)>>,
                  <<"_displayHeight", px(box.height)>> >>)
       EXCEPT !.visible = visible]

Children(id) ==
    { Child(id, box, align, visible) :
        box \in ChildBoxes, align \in Aligns, visible \in BOOLEAN }

\* the children lists of the container: none, one or two children
ChildLists ==
    {<<>>} \cup { <<c>> : c \in Children("w_b") }
           \cup { <<c, d>> : c \in Children("w_b"), d \in Children("w_c") }

ContainerOf(children) ==
    [canvas  |-> BlankLayout(px(1920), px(1080)).canvas,
     widgets |-> << [NewWidget("w_a", "composite", px(100), px(100), <<>>)
                       EXCEPT !.children = children] >>]

InitBounds ==
    \E children \in ChildLists : Starts(setLayout(Constructed, ContainerOf(children)))

InBoundsSession == steps < MaxBoundsSteps

BoundsToggleVisible == InBoundsSession /\ DoToggleVisible
BoundsSetWidgetProperty == InBoundsSession /\ DoSetWidgetProperty
BoundsLayerClick == InBoundsSession /\ DoLayerClick

NextBounds ==
    \/ BoundsToggleVisible
    \/ BoundsSetWidgetProperty
    \/ BoundsLayerClick

SpecBounds == InitBounds /\ [][NextBounds]_vars

(***************************************************************************)
(* Keyboard session: selecting, locking and nudging with the arrow keys,   *)
(* and undo                                                                *)
(***************************************************************************)
InKeysSession == steps < MaxKeysSteps

KeysInitEditor == InKeysSession /\ DoInitEditor
KeysLayerClick == InKeysSession /\ DoLayerClick
KeysToggleLocked == InKeysSession /\ DoToggleLocked
KeysArrow == InKeysSession /\ DoKeyArrow
KeysUndo == InKeysSession /\ DoUndo

NextKeys ==
    \/ KeysInitEditor
    \/ KeysLayerClick
    \/ KeysToggleLocked
    \/ KeysArrow
    \/ KeysUndo

SpecKeys == Init /\ [][NextKeys]_vars

(***************************************************************************)
(* Session with a faulty subscriber: a callback that throws is subscribed  *)
(* to one event, before or after the canvas subscribed, and a few handlers *)
(* run                                                                     *)
(***************************************************************************)
\* the events the faulty callback is subscribed to
FaultyEvents ==
    {"widget:added", "widget:removed", "layout:restored", "selection:changed",
     "history:changed"}

InitListeners ==
    \/ \E e \in FaultyEvents : Starts(on(Constructed, e, "throws"))
    \/ \E e \in FaultyEvents :
          Starts([Constructed EXCEPT !.listeners = << <<e, "throws">> >> \o @])

InListenersSession == steps < MaxListenersSteps

ListenersInitEditor == InListenersSession /\ DoInitEditor
ListenersLayerClick == InListenersSession /\ DoLayerClick
ListenersAddWidget == InListenersSession /\ DoAddWidget
ListenersRemoveWidget == InListenersSession /\ DoRemoveWidget
ListenersUndo == InListenersSession /\ DoUndo
ListenersRedo == InListenersSession /\ DoRedo

NextListeners ==
    \/ ListenersInitEditor
    \/ ListenersLayerClick
    \/ ListenersAddWidget
    \/ ListenersRemoveWidget
    \/ ListenersUndo
    \/ ListenersRedo

SpecListeners == InitListeners /\ [][NextListeners]_vars

(***************************************************************************)
(* Properties                                                              *)
(***************************************************************************)
\* the handlers that replace the document
Replacements == {"setLayout", "newLayout", "fromJSON"}

\* the handlers that call addWidget, removeWidget or setWidgetProperty once
Mutations == {"addWidget", "removeWidget", "setWidgetProperty"}

\* the events in e say that the mutation was carried out (known type,
\* widget found)
CarriedOut(e) ==
    \E i \in DOMAIN e : e[i] \in {"widget:added", "widget:removed", "property:changed"}

\* the anchor of the dragged widget, <<>> if there is none
DraggedAnchor(widgets) ==
    IF dragState.widgetId = <<>> THEN <<>> ELSE anchorIn(widgets, dragState.widgetId[1])

\* the box (anchor and effective size) of the widget being resized differs
\* from the one captured at pointer-down
ResizedBoxDiffers ==
    /\ resizeState.widgetId # <<>>
    /\ LET differs(w) ==
               /\ w # <<>>
               /\ <<w[1].x, w[1].y, effectiveWidth(w[1]), effectiveHeight(w[1])>>
                    # <<resizeState.startWidgetX, resizeState.startWidgetY,
                        resizeState.startWidth, resizeState.startHeight>>
       IN  differs(findWidgetRecursive(layout.widgets, resizeState.widgetId[1]))

\* the step pushed exactly one entry, the snapshot of the layout it leaves,
\* on the entries up to the cursor, and the cursor designates it
PushedOne ==
    /\ Len(history') = Min(currentIndex + 2, maxHistory)
    /\ history'[Len(history')] = JSONstringify(layout')
    /\ currentIndex' = Len(history') - 1

\* the step left the history and the cursor alone
HistoryKept == history' = history /\ currentIndex' = currentIndex

\* C1: undo() right after the release of a drag that changed the anchor puts
\* the widget's anchor back where pointer-down found it, and redo() right
\* after that undo() puts it where pointer-up left it.
C1_UndoRedoOfDrag ==
    [][ /\ (last.chain = 1 /\ last'.chain = 2)
            => DraggedAnchor(layout'.widgets) = <<dragState.startX, dragState.startY>>
        /\ (last.chain = 2 /\ last'.chain = 3)
            => DraggedAnchor(layout'.widgets) = <<last.upX, last.upY>> ]_vars

\* C2: when a handler records a snapshot while the cursor is not at the
\* newest entry, the entries up to the cursor are kept, those beyond it are
\* gone, the new snapshot is the last entry, the cursor is on it and
\* canRedo() is false.
C2_HistoryLinear ==
    [][ (/\ history' # history
         /\ last'.op \notin Replacements
         /\ currentIndex < Len(history) - 1)
        => /\ SubSeq(history', 1, currentIndex + 1) = SubSeq(history, 1, currentIndex + 1)
           /\ \/ Len(history') = currentIndex + 2
              \/ last'.op = "keyDelete" /\ Len(history') > currentIndex + 2
           /\ history'[Len(history')] = JSONstringify(layout')
           /\ currentIndex' = Len(history') - 1
           /\ ~(currentIndex' < Len(history') - 1) ]_vars

\* a snapshot was recorded while redo was possible
C2_Witness ==
    /\ last.op = "setWidgetProperty"
    /\ last.idx < last.len - 1
    /\ Len(history) = last.idx + 2
    /\ currentIndex = last.idx + 1

\* C3: a saveSnapshot() right after a saveSnapshot() changes neither the
\* history nor the cursor and emits nothing, and the history holds exactly
\* one entry for the layout: the one at the cursor, which differs from the
\* entry before it.
C3_SnapshotIdempotent ==
    [][ (last.op = "saveSnapshot" /\ last'.op = "saveSnapshot")
        => /\ HistoryKept
           /\ emitted' = <<>>
           /\ HasLayout =>
                /\ history[currentIndex + 1] = JSONstringify(layout)
                /\ currentIndex > 0 => history[currentIndex] # history[currentIndex + 1] ]_vars

\* saveSnapshot() ran twice in a row, the first call having recorded a
\* pending change
C3_Witness ==
    /\ last.op = "saveSnapshot"
    /\ last.again
    /\ isDirty
    /\ Len(history) = 2
    /\ currentIndex = 1

\* C4 (as stated): each addWidget, removeWidget or setWidgetProperty that
\* succeeds (a widget more in the tree, a widget removed, the widget found)
\* adds exactly one entry to the history, and the cursor is on it.
C4_OneEntryPerCall ==
    [][ (/\ last'.op \in Mutations
         /\ CarriedOut(emitted')
         /\ last'.op = "addWidget"
              => CountWidgets(layout'.widgets) = CountWidgets(layout.widgets) + 1)
        => PushedOne ]_vars

\* C4 (amended): a call that is carried out adds exactly one entry, with the
\* cursor on it, when it leaves the layout different from the last recorded
\* snapshot; otherwise the history and the cursor are as they were.
C4_OneEntryPerChange ==
    [][ last'.op \in Mutations
        => IF CarriedOut(emitted') /\ <<JSONstringify(layout')>> # lastSnapshot
           THEN PushedOne
           ELSE HistoryKept ]_vars

\* setWidgetProperty found its widget, gave the property the value it had,
\* and added no entry, redo staying possible
C4_Witness ==
    /\ last.op = "setWidgetProperty"
    /\ CarriedOut(emitted)
    /\ Len(history) = last.len
    /\ currentIndex = last.idx
    /\ currentIndex < Len(history) - 1

\* C5 (as stated): a pointer-move leaves the history and the cursor alone;
\* pointer-up adds exactly one entry if the widget differs from what it was
\* at pointer-down (drag: the anchor; resize: the box) and none otherwise.
C5_EntryIffWidgetDiffers ==
    [][ /\ last'.op = "mouseMove" => HistoryKept
        /\ last'.op = "mouseUp"
            => IF \/ /\ dragState.isDragging
                     /\ DraggedAnchor(layout.widgets) # <<>>
                     /\ DraggedAnchor(layout.widgets) # <<dragState.startX, dragState.startY>>
                  \/ resizeState.isResizing /\ ResizedBoxDiffers
               THEN PushedOne
               ELSE HistoryKept ]_vars

\* C5 (amended): a pointer-move leaves the history and the cursor alone;
\* pointer-up calls snapshot() when a resize is in progress, or a drag whose
\* widget's anchor differs from the drag-start anchor, and exactly one entry
\* is added when the layout then differs from the last recorded snapshot;
\* otherwise none.
C5_EntryIffLayoutDiffers ==
    [][ /\ last'.op = "mouseMove" => HistoryKept
        /\ last'.op = "mouseUp"
            => IF /\ \/ resizeState.isResizing
                     \/ /\ dragState.isDragging
                        /\ DraggedAnchor(layout.widgets) # <<>>
                        /\ DraggedAnchor(layout.widgets) # <<dragState.startX, dragState.startY>>
                  /\ <<JSONstringify(layout)>> # lastSnapshot
               THEN PushedOne
               ELSE HistoryKept ]_vars

\* the pointer-up of a resize that left the widget's box as pointer-down
\* found it added an entry
C5_Witness ==
    /\ last.op = "mouseUp"
    /\ last.chain = 0
    /\ Len(history) = last.len + 1
    /\ ~resizeState.isResizing
    /\ ~ResizedBoxDiffers
    /\ resizeState.widgetId # <<>>

\* C6: undo() with the cursor at or before the oldest entry and redo() with
\* the cursor at the newest entry change neither the layout, the history,
\* the cursor nor lastSnapshot, and emit nothing.
C6_BoundaryNoOps ==
    [][ ( \/ last'.op = "undo" /\ currentIndex <= 0
          \/ last'.op = "redo" /\ currentIndex >= Len(history) - 1 )
        => /\ layout' = layout
           /\ HistoryKept
           /\ lastSnapshot' = lastSnapshot
           /\ emitted' = <<>> ]_vars

\* undo() ran with the cursor on the oldest entry of a history
C6_Witness ==
    /\ last.op = "undo"
    /\ last.idx = 0
    /\ last.len >= 1
    /\ currentIndex = 0
    /\ emitted = <<>>

\* C7: the history never holds more than maxHistory entries, and a snapshot
\* recorded on a full history with the cursor at the newest entry drops the
\* oldest entry, appends the new one and leaves the cursor on it.
C7_BoundedHistory ==
    [][ /\ Len(history') <= maxHistory
        /\ (/\ Len(history) = maxHistory
            /\ currentIndex = maxHistory - 1
            /\ history' # history
            /\ last'.op \notin Replacements)
           => /\ history' = Append(Tail(history), JSONstringify(layout'))
              /\ currentIndex' = maxHistory - 1 ]_vars

\* a snapshot was recorded on a full history
C7_Witness ==
    /\ Len(history) = maxHistory
    /\ last.len = maxHistory
    /\ last.idx = maxHistory - 1
    /\ currentIndex = maxHistory - 1
    /\ history[1] # JSONstringify(OneWidgetLayout)
    /\ CarriedOut(emitted)

\* C8: undo() and redo() leave the entries of the history as they are, also
\* when a listener of layout:restored calls saveSnapshot(), and move the
\* cursor by exactly one (or not at all, at the boundary).
C8_RestoreTakesNoSnapshot ==
    [][ /\ last'.op \in {"undo", "redo"} => history' = history
        /\ last'.op = "undo"
            => currentIndex' = IF currentIndex > 0 THEN currentIndex - 1 ELSE currentIndex
        /\ last'.op = "redo"
            => currentIndex' = IF currentIndex < Len(history) - 1 THEN currentIndex + 1
                               ELSE currentIndex ]_vars

\* undo() restored an entry while a listener called saveSnapshot()
C8_Witness ==
    /\ last.op = "undo"
    /\ last.reenter
    /\ last.idx > 0
    /\ currentIndex = last.idx - 1

\* C9: right after setLayout, newLayout or fromJSON the selection is empty,
\* isDirty is false, the history holds the snapshot of the new layout and
\* nothing else, canUndo() and canRedo() are false, and an undo() leaves the
\* new layout in place.
C9_ReplacementResets ==
    [][ /\ last'.op \in Replacements
            => /\ selectedWidgets' = {}
               /\ ~isDirty'
               /\ history' = <<JSONstringify(layout')>>
               /\ currentIndex' = 0
               /\ ~(currentIndex' > 0)
               /\ ~(currentIndex' < Len(history') - 1)
        /\ (last.op \in Replacements /\ last'.op = "undo") => layout' = layout ]_vars

\* a document with a selection and several history entries was replaced
C9_Witness ==
    /\ last.op = "fromJSON"
    /\ last.len >= 2
    /\ last.idx >= 1
    /\ selectedWidgets = {}
    /\ Len(history) = 1

\* C10: after removeWidget(id) or the Delete key removed widgets, no id that
\* left the tree is still in the selection.
C10_RemovalPrunesSelection ==
    [][ last'.op \in {"removeWidget", "keyDelete"}
        => selectedWidgets' \cap (AllIds(layout.widgets) \ AllIds(layout'.widgets)) = {} ]_vars

\* the events in e say that a snapshot was restored
Restored(e) == \E i \in DOMAIN e : e[i] = "layout:restored"

\* C11: after undo() or redo() restored a snapshot, every selected id is the
\* id of a widget of the restored layout (the selection held before the
\* restore being one of existing widgets).
C11_RestorePrunesSelection ==
    [][ /\ last'.op \in {"undo", "redo"}
        /\ Restored(emitted')
        /\ selectedWidgets \subseteq AllIds(layout.widgets)
        => selectedWidgets' \subseteq AllIds(layout'.widgets) ]_vars

\* C12: whatever addWidget calls, removals, undo / redo and loads went
\* before, the ids of the widgets of the tree are pairwise distinct over the
\* whole tree: there are as many ids as widgets.
C12_IdsDistinct ==
    HasLayout => Cardinality(AllIds(layout.widgets)) = CountWidgets(layout.widgets)

\* the widgets of a forest in depth-first order, each as <<id, depth>>
RECURSIVE Outline(_, _)
Outline(widgets, depth) ==
    IF widgets = <<>> THEN <<>>
    ELSE <<<<Head(widgets).id, depth>>>> \o Outline(Head(widgets).children, depth + 1)
         \o Outline(Tail(widgets), depth)

\* the outline o without its entries k .. k + n - 1
Without(o, k, n) == SubSeq(o, 1, k - 1) \o SubSeq(o, k + n, Len(o))

\* the position of the first entry of the outline o that has this id
FirstAt(o, id) == CHOOSE k \in DOMAIN o : o[k][1] = id /\ \A j \in 1..(k - 1) : o[j][1] # id

\* the number of widgets of the subtree rooted at the first widget with this id
SubtreeSize(widgets, id) ==
    LET size(f) == IF f = <<>> THEN 0 ELSE 1 + CountWidgets(f[1].children)
    IN  size(findWidgetRecursive(widgets, id))

\* what findWidget returned, without the children of the widget
Own(f) == IF f = <<>> THEN <<>> ELSE <<[f[1] EXCEPT !.children = <<>>]>>

\* findWidget returned a widget whose type the catalog marks as a container
IsContainer(f) ==
    /\ f # <<>>
    /\ metadataOf(f[1].type) # <<>>
    /\ metadataOf(f[1].type)[1].is_container

\* C13: removeWidget(id) of a container of the tree removes it with its whole
\* subtree: afterwards findWidget finds neither id nor the id of any former
\* descendant, and the rest of the tree is what it was, every other widget
\* at its place and in its order.
C13_RemovalTakesSubtree ==
    [][ /\ last'.op = "removeWidget"
        /\ IsContainer(findWidgetRecursive(layout.widgets, last'.id))
        => /\ \A d \in SubtreeIds(layout.widgets, last'.id) :
                 findWidgetRecursive(layout'.widgets, d) = <<>>
           /\ Outline(layout'.widgets, 0)
                = Without(Outline(layout.widgets, 0),
                          FirstAt(Outline(layout.widgets, 0), last'.id),
                          SubtreeSize(layout.widgets, last'.id))
           /\ \A i \in AllIds(layout.widgets) \ SubtreeIds(layout.widgets, last'.id) :
                 /\ findWidgetRecursive(layout'.widgets, i) # <<>>
                 /\ Own(findWidgetRecursive(layout'.widgets, i))
                      = Own(findWidgetRecursive(layout.widgets, i)) ]_vars

\* the forest `after` is the forest `before` with one more widget at its
\* end, and that widget has this id
AppendedTo(before, after, id) ==
    /\ Len(after) = Len(before) + 1
    /\ SubSeq(after, 1, Len(before)) = before
    /\ after[Len(after)].id = id

\* C14: addWidget with a type of the catalog appends the new widget to the
\* children of the widget whose id is parentId, or to the root list when
\* parentId is null or the id of no widget, and findWidget finds the widget
\* it returns.
C14_AddAppends ==
    [][ last'.op = "addWidget" /\ last'.type \in KnownTypes
        => LET placed(parent) ==
                   IF parent = <<>>
                   THEN AppendedTo(layout.widgets, layout'.widgets, last'.id)
                   ELSE LET grown(after) ==
                                /\ after # <<>>
                                /\ AppendedTo(parent[1].children, after[1].children, last'.id)
                        IN  grown(findWidgetRecursive(layout'.widgets, last'.parent[1]))
           IN  /\ placed(IF last'.parent = <<>> THEN <<>>
                         ELSE findWidgetRecursive(layout.widgets, last'.parent[1]))
               /\ findWidgetRecursive(layout'.widgets, last'.id) # <<>> ]_vars

\* C15: addWidget with a type the catalog does not have returns no widget
\* and changes nothing: the tree, the canvas settings, the selection, the
\* dirty flag, the history, its cursor and the last snapshot are what they
\* were, and no event, widget:added included, is emitted. The same holds for
\* a drop of such a type, which selects nothing.
C15_UnknownTypeAborts ==
    [][ last'.op \in {"addWidget", "drop"} /\ last'.type = UnknownType
        => /\ ~addWidgetReturns(last'.type)
           /\ layout' = layout
           /\ selectedWidgets' = selectedWidgets
           /\ isDirty' = isDirty
           /\ HistoryKept
           /\ lastSnapshot' = lastSnapshot
           /\ emitted' = <<>> ]_vars

\* addWidget was called with an unknown type on a document that has a
\* widget, a selection, unsaved changes and two history entries
C15_Witness ==
    /\ last.op = "addWidget"
    /\ last.type = UnknownType
    /\ layout.widgets # <<>>
    /\ selectedWidgets # {}
    /\ isDirty
    /\ Len(history) = 2

\* C16: updateWidget, removeWidget and setWidgetProperty called with an id
\* that no widget of the tree has change nothing and emit no event: the
\* layout, the selection, the dirty flag, the history, its cursor and the
\* last snapshot are what they were.
C16_MissingIdNoOp ==
    [][ /\ last'.op \in {"updateWidget", "removeWidget", "setWidgetProperty"}
        /\ last'.id \notin AllIds(layout.widgets)
        => /\ layout' = layout
           /\ selectedWidgets' = selectedWidgets
           /\ isDirty' = isDirty
           /\ HistoryKept
           /\ lastSnapshot' = lastSnapshot
           /\ emitted' = <<>> ]_vars

\* updateWidget was called with an id of no widget on a document that has
\* a widget and a selection
C16_Witness ==
    /\ last.op = "updateWidget"
    /\ last.id \notin AllIds(layout.widgets)
    /\ layout.widgets # <<>>
    /\ selectedWidgets # {}
    /\ ~isDirty

\* the new display position of a drag move: the pointer minus the offset
\* captured at pointer-down, as a whole pixel, snapped to the grid when
\* snap_to_grid is on, and not below 0
NewDisplay(v, canvas) ==
    Max(0, IF canvas.snap_to_grid THEN roundTo(mathRound(v), canvas.grid_size)
           ELSE mathRound(v))

\* a step is a move of a drag whose widget is in the tree; then
\* moved(dAnchorX, dAnchorY, dDisplayX, dDisplayY) holds of the anchor after
\* the move minus the anchor captured at pointer-down and of the new display
\* position minus the display position captured at pointer-down
DragMoves(moved(_, _, _, _)) ==
    /\ last'.op = "mouseMove"
    /\ ~resizeState.isResizing
    /\ dragState.isDragging
    /\ DraggedAnchor(layout.widgets) # <<>>
    => LET after(anchor) ==
               moved(anchor[1] - dragState.startX, anchor[2] - dragState.startY,
                     NewDisplay(last'.at[1].x - dragState.offsetX, layout.canvas)
                       - dragState.startDisplayX,
                     NewDisplay(last'.at[1].y - dragState.offsetY, layout.canvas)
                       - dragState.startDisplayY)
       IN  after(DraggedAnchor(layout'.widgets))

Exactly(dAnchorX, dAnchorY, dDisplayX, dDisplayY) ==
    dAnchorX = dDisplayX /\ dAnchorY = dDisplayY

\* C17: in a drag, whatever the alignment and the nesting depth
\* of the widget, its anchor after a move minus its anchor at pointer-down
\* is exactly the new display position minus the display position captured
\* at pointer-down, on both axes.
C17_AnchorDeltaIsDisplayDelta == [][ DragMoves(Exactly) ]_vars

\* the anchor of the widget being resized, <<>> if there is none
ResizedAnchor(widgets) ==
    IF resizeState.widgetId = <<>> THEN <<>> ELSE anchorIn(widgets, resizeState.widgetId[1])

\* a step is a resize move by a far-side handle (e, s, se) of a widget of
\* the tree
FarSideMove ==
    /\ last'.op = "mouseMove"
    /\ resizeState.isResizing
    /\ resizeState.handle[1] \in {"e", "s", "se"}
    /\ ResizedAnchor(layout.widgets) # <<>>

BottomRight(w) ==
    LET corner(b) == <<b.x + b.width, b.y + b.height>>
    IN  corner(getWidgetDisplayBounds(w))

\* the widget being resized as pointer-down found it: the widget w with the
\* anchor and the size captured in resizeState
AtPointerDown(w) ==
    [w EXCEPT !.x = resizeState.startWidgetX, !.y = resizeState.startWidgetY,
              !.properties = setProp(setProp(@, "width", resizeState.startWidth),
                                     "height", resizeState.startHeight)]

\* a and b are within d of each other
Near(a, b, d) == a - b <= d /\ b - a <= d

\* C19: a resize move by the nw handle leaves the bottom-right corner of the
\* effective bounds of the widget (effective left edge + width, y + height)
\* where pointer-down found it, exactly when snap_to_grid is off and within
\* one grid step when it is on, whether or not the minimum size clamps the
\* move.
C19_NwKeepsBottomRight ==
    [][ /\ last'.op = "mouseMove"
        /\ resizeState.isResizing
        /\ resizeState.handle[1] = "nw"
        /\ ResizedAnchor(layout.widgets) # <<>>
        => LET kept(was, is, slack) ==
                   Near(is[1], was[1], slack) /\ Near(is[2], was[2], slack)
               held(w) == kept(BottomRight(AtPointerDown(w)), BottomRight(w),
                               IF layout.canvas.snap_to_grid THEN layout.canvas.grid_size
                               ELSE 0)
           IN  held(findWidgetRecursive(layout'.widgets, resizeState.widgetId[1])[1]) ]_vars

\* the least and the greatest number of a non-empty finite set
Least(S) == CHOOSE v \in S : \A u \in S : v <= u
Greatest(S) == CHOOSE v \in S : \A u \in S : u <= v

\* the effective bounds of a widget: its anchor and effective size, the
\* left edge shifted by the width for align right and by half of it for
\* align center / centre
EffectiveLeft(w) ==
    CASE getProp(w.properties, "align") = <<"right">> -> w.x - effectiveWidth(w)
      [] getProp(w.properties, "align") \in {<<"center">>, <<"centre">>}
           -> w.x - effectiveWidth(w) \div 2
      [] OTHER -> w.x

\* the union bounding box of the effective bounds of the visible children,
\* <<>> when none is visible
UnionBox(children) ==
    LET box(V) ==
            IF V = {} THEN <<>>
            ELSE << [x |-> Least({EffectiveLeft(children[i]) : i \in V}),
                     y |-> Least({children[i].y : i \in V}),
                     width |-> Greatest({EffectiveLeft(children[i])
                                           + effectiveWidth(children[i]) : i \in V})
                               - Least({EffectiveLeft(children[i]) : i \in V}),
                     height |-> Greatest({children[i].y + effectiveHeight(children[i])
                                            : i \in V})
                                - Least({children[i].y : i \in V})] >>
    IN  box({i \in DOMAIN children : children[i].visible})

\* the children of the example: boxes {0, 0, 50, 50} and {100, 100, 20, 20}
ExampleChildren ==
    << Child("w_b", [x |-> 0, y |-> 0, width |-> 50, height |-> 50], "left", TRUE),
       Child("w_c", [x |-> 100, y |-> 100, width |-> 20, height |-> 20], "left", TRUE) >>

\* C20: the bounds of a container are the union bounding box of the
\* effective bounds of its visible children, invisible children adding
\* nothing; they are null when no child is visible; and children at
\* {0, 0, 50, 50} and {100, 100, 20, 20} give {0, 0, 120, 120}.
C20_ContainerBounds ==
    /\ HasLayout =>
          \A i \in DOMAIN layout.widgets :
             getChildrenBounds(layout.widgets[i].children)
               = UnionBox(layout.widgets[i].children)
    /\ getChildrenBounds(ExampleChildren)
         = << [x |-> px(0), y |-> px(0), width |-> px(120), height |-> px(120)] >>

\* the container holds the two children of the example and a handler has
\* made one of them invisible, so that the bounds are those of the other
C20_Witness ==
    /\ last.op = "updateWidget"
    /\ Len(layout.widgets) = 1
    /\ Len(layout.widgets[1].children) = 2
    /\ layout.widgets[1].children[1] = ExampleChildren[1]
    /\ layout.widgets[1].children[2] = [ExampleChildren[2] EXCEPT !.visible = FALSE]
    /\ getChildrenBounds(layout.widgets[1].children)
         = << [x |-> px(0), y |-> px(0), width |-> px(50), height |-> px(50)] >>

\* an edge of the effective bounds of w (anchor and effective size, the left
\* edge shifted for align right and center) lies outside the canvas
Outside(w, canvas) ==
    \/ EffectiveLeft(w) < 0
    \/ w.y < 0
    \/ EffectiveLeft(w) + effectiveWidth(w) > canvas.width
    \/ w.y + effectiveHeight(w) > canvas.height

\* the widgets that are drawn with their own effective bounds: rendered, and
\* without children
LeafWidgets ==
    { widgetAt(layout.widgets, p) : p \in
        { q \in renderedPaths(layout.widgets, <<>>) :
            widgetAt(layout.widgets, q).children = <<>> } }

\* the canvas marks every widget it draws with its own bounds as out of
\* bounds exactly when an edge of its effective bounds lies outside the canvas
CanvasFlagsOutside ==
    HasLayout =>
       \A w \in LeafWidgets : isOutOfBounds(w, layout.canvas) = Outside(w, layout.canvas)

\* C21: a widget is flagged out-of-bounds, on the canvas and (when it is the
\* one selected widget) in the properties panel, exactly when an edge of its
\* alignment-adjusted effective bounds lies outside the canvas.
C21_FlaggedIffOutside ==
    HasLayout =>
       \A w \in LeafWidgets :
          /\ isOutOfBounds(w, layout.canvas) = Outside(w, layout.canvas)
          /\ selectedWidgets = {w.id}
                => (checkWidgetBounds(w, layout.canvas) # {}) = Outside(w, layout.canvas)

\* the operations that change the visible document: the mutations of
\* EditorState, a pointer move of a gesture, and undo / redo
DocumentChanges ==
    {"addWidget", "removeWidget", "updateWidget", "setWidgetProperty", "updateCanvas",
     "mouseMove", "undo", "redo"}

\* a step of one of these operations that left another document than it found
\* has marked the document dirty and has emitted an event
MarksDirty(ops) ==
    last'.op \in ops /\ layout' # layout => isDirty' /\ emitted' # <<>>

\* the mutations of EditorState and the pointer moves mark the document dirty
\* and emit an event whenever they change it
MutationsMarkDirty == [][ MarksDirty(DocumentChanges \ {"undo", "redo"}) ]_vars

\* C22: every operation that changes the visible document (addWidget,
\* removeWidget, updateWidget, setWidgetProperty, updateCanvas, a resize move,
\* a restore by undo / redo) leaves isDirty true and has emitted at least one
\* event when it returns.
C22_ChangeMarksDirty == [][ MarksDirty(DocumentChanges) ]_vars

\* the program state as it would be had the callbacks that throw never been
\* subscribed
WithoutFaulty == [State EXCEPT !.listeners = SelectSeq(@, LAMBDA r : r[2] # "throws")]

\* the step leaves what the handler leaves in state e, and the subscriptions
\* as they were
Leaves(e) ==
    /\ layout' = e.layout
    /\ selectedWidgets' = e.selectedWidgets
    /\ isDirty' = e.isDirty
    /\ history' = e.history
    /\ currentIndex' = e.currentIndex
    /\ lastSnapshot' = e.lastSnapshot
    /\ isRestoring' = e.isRestoring
    /\ dragState' = e.dragState
    /\ resizeState' = e.resizeState
    /\ handles' = e.handles
    /\ emitted' = e.emitted
    /\ listeners' = listeners

\* C23: a listener that throws stops nothing: addWidget, removeWidget, undo
\* and redo leave exactly the state they leave when no callback that throws
\* is subscribed (every state change of the mutation, every event, and what
\* the other listeners of the event do when they are invoked: the canvas is
\* rendered anew), and the handler returns normally.
C23_FaultyListenerIsolated ==
    [][ /\ last'.op = "addWidget"
           => \E at \in DropPoints :
                 Leaves(addWidget(WithoutFaulty, last'.type, at.x, at.y,
                                  last'.parent, last'.id))
        /\ last'.op = "removeWidget" => Leaves(removeWidget(WithoutFaulty, last'.id))
        /\ last'.op = "undo" => Leaves(undo(WithoutFaulty, last'.reenter))
        /\ last'.op = "redo" => Leaves(redo(WithoutFaulty, last'.reenter)) ]_vars

\* addWidget has run while a callback that throws was subscribed to
\* widget:added before the canvas: the widget is in the tree, the event was
\* emitted, and the canvas, invoked after the faulty callback, has drawn the
\* handles of the selected widget
C23_Witness ==
    /\ last.op = "addWidget"
    /\ listeners[1] = <<"widget:added", "throws">>
    /\ findWidgetRecursive(layout.widgets, last.id) # <<>>
    /\ \E i \in DOMAIN emitted : emitted[i] = "widget:added"
    /\ handles # {}
    /\ isDirty

\* every widget of the forest, at any depth
RECURSIVE AllWidgets(_)
AllWidgets(widgets) ==
    IF widgets = <<>> THEN {}
    ELSE {Head(widgets)} \cup AllWidgets(Head(widgets).children) \cup AllWidgets(Tail(widgets))

\* the catalog declares the type is_container = true
DeclaredContainer(type) == type \in KnownTypes /\ widgetMetadataByType[type].is_container

\* C24: in every state, every widget whose type the catalog does not declare
\* is_container = true has an empty children list (addWidget with the
\* parentId of such a widget puts no child under it).
C24_OnlyContainersHaveChildren ==
    HasLayout =>
       \A w \in AllWidgets(layout.widgets) : ~DeclaredContainer(w.type) => w.children = <<>>

\* a step is a Delete / Backspace key press with two or more widgets selected
DeletesSeveral == last'.op = "keyDelete" /\ Cardinality(selectedWidgets) >= 2

\* a Delete / Backspace key press with two or more widgets selected leaves
\* none of them in the tree
DeleteRemovesSelected ==
    [][ DeletesSeveral => AllIds(layout'.widgets) \cap selectedWidgets = {} ]_vars

\* C25: a Delete / Backspace key press with two or more widgets selected
\* removes all of them and adds exactly one history entry, the snapshot of
\* the document without them, on top of the entries up to the cursor (so
\* that one undo() brings all of them back).
C25_DeleteIsOneEntry ==
    [][ DeletesSeveral
        => /\ AllIds(layout'.widgets) \cap selectedWidgets = {}
           /\ PushedOne ]_vars

\* select-all makes the selection the set of the ids of the top-level widgets
SelectAllTakesRoots ==
    [][ last'.op = "keySelectAll"
        => selectedWidgets' = {layout.widgets[i].id : i \in DOMAIN layout.widgets} ]_vars

\* C26: select-all makes the selection the set of the ids of every widget of
\* the tree, top-level and nested at any depth.
C26_SelectAllTakesEveryId ==
    [][ last'.op = "keySelectAll" => selectedWidgets' = AllIds(layout.widgets) ]_vars

\* a step is a mousedown on the element of an unlocked widget of the tree
ClicksUnlocked ==
    /\ last'.op = "widgetMouseDown"
    /\ findWidgetRecursive(layout.widgets, last'.id) # <<>>
    /\ ~findWidgetRecursive(layout.widgets, last'.id)[1].locked

\* a click on an unlocked widget makes the selection {that widget} without
\* the modifier and adds the widget to the selection with it
ClickSelectsOrAdds ==
    [][ ClicksUnlocked
        => selectedWidgets' = IF last'.shift THEN selectedWidgets \cup {last'.id}
                              ELSE {last'.id} ]_vars

\* C27: a click on an unlocked widget without the modifier makes the
\* selection exactly {that widget}; with the modifier it toggles the widget
\* (adds it if absent, removes it if present) and leaves the other selected
\* ids as they were; a click on the empty canvas empties the selection.
C27_ClickSelectsOrToggles ==
    [][ /\ ClicksUnlocked
           => selectedWidgets' =
                 IF ~last'.shift THEN {last'.id}
                 ELSE IF last'.id \in selectedWidgets THEN selectedWidgets \ {last'.id}
                 ELSE selectedWidgets \cup {last'.id}
        /\ last'.op = "clearSelection" => selectedWidgets' = {} ]_vars

\* the forest with every anchor put at the origin: what a move of widgets
\* leaves alone
RECURSIVE Unanchored(_)
Unanchored(widgets) ==
    IF widgets = <<>> THEN <<>>
    ELSE << [Head(widgets) EXCEPT !.x = 0, !.y = 0,
                                  !.children = Unanchored(Head(widgets).children)] >>
         \o Unanchored(Tail(widgets))

\* the step of an arrow key: in the key's direction, by 1 pixel or by 10 with
\* the modifier
KeyDelta ==
    LET delta == IF last'.shift THEN px(10) ELSE px(1)
    IN  CASE last'.key = "ArrowLeft"  -> <<-delta, 0>>
          [] last'.key = "ArrowRight" -> <<delta, 0>>
          [] last'.key = "ArrowUp"    -> <<0, -delta>>
          [] last'.key = "ArrowDown"  -> <<0, delta>>

\* the widget found for id is unlocked and selected
Nudgeable(id) ==
    id \in selectedWidgets /\ ~findWidgetRecursive(layout.widgets, id)[1].locked

\* an arrow-key press moves the widget found for each selected id, if it is
\* unlocked, by the step of the key, leaves the other anchors where they
\* were, and changes nothing else of the document
ArrowMoves ==
    /\ layout'.canvas = layout.canvas
    /\ Unanchored(layout'.widgets) = Unanchored(layout.widgets)
    /\ \A id \in AllIds(layout.widgets) :
          anchorIn(layout'.widgets, id)
            = IF Nudgeable(id)
              THEN <<anchorIn(layout.widgets, id)[1] + KeyDelta[1],
                     anchorIn(layout.widgets, id)[2] + KeyDelta[2]>>
              ELSE anchorIn(layout.widgets, id)

\* C28 (as claimed): an arrow-key press moves every selected unlocked widget
\* by 1 pixel in the key's direction (10 with the modifier), leaves every
\* locked and every unselected widget unchanged, and adds exactly one
\* history entry when at least one widget moved, none when all the selected
\* widgets are locked.
C28_ArrowEntryIffMoved ==
    [][ last'.op = "keyArrow"
        => /\ ArrowMoves
           /\ IF \E id \in AllIds(layout.widgets) : Nudgeable(id)
              THEN PushedOne ELSE HistoryKept ]_vars

\* C28 (amended): an arrow-key press moves every selected unlocked widget by
\* 1 pixel in the key's direction (10 with the modifier), leaves every locked
\* and every unselected widget unchanged, and, when a widget is selected,
\* ends with one saveSnapshot(): it adds exactly one history entry when the
\* document it leaves differs from the last recorded snapshot, none when it
\* does not.
C28_ArrowEntryIffDiffers ==
    [][ last'.op = "keyArrow"
        => /\ ArrowMoves
           /\ IF /\ selectedWidgets \cap AllIds(layout.widgets) # {}
                 /\ <<JSONstringify(layout')>> # lastSnapshot
              THEN PushedOne ELSE HistoryKept ]_vars

\* an arrow key with the modifier has moved the one unlocked selected widget
\* by 10 pixels and has pushed one entry, while a locked widget was selected
\* as well
C28_Witness ==
    /\ last.op = "keyArrow"
    /\ last.shift
    /\ Cardinality(selectedWidgets) = 2
    /\ \E id \in selectedWidgets : findWidgetRecursive(layout.widgets, id)[1].locked
    /\ \E id \in selectedWidgets : ~findWidgetRecursive(layout.widgets, id)[1].locked
    /\ currentIndex = last.idx + 1
    /\ Len(history) = last.len + 1

\* the keys of widget.properties that hold a size
SizeKeys == {"width", "height", "size", "_displayWidth", "_displayHeight"}

\* the step is a pointer move of a resize
ResizeMove == last'.op = "mouseMove" /\ resizeState.isResizing

\* the widget being resized, as the widget list ws holds it
Resized(ws) == findWidgetRecursive(ws, resizeState.widgetId[1])[1]

\* every size the resized widget holds after the move is at least the floor
FloorKept ==
    \A k \in SizeKeys :
       LET v == getProp(Resized(layout'.widgets).properties, k)
       IN  v # <<>> => v[1] >= minSize

\* without snapping, or on a grid no coarser than twice the floor, a resize
\* move leaves width and height at the floor or above
ResizeKeepsFloorOnFineGrid ==
    [][ /\ ResizeMove
        /\ ~layout.canvas.snap_to_grid \/ layout.canvas.grid_size <= 2 * minSize
        => FloorKept ]_vars

\* a resize on the fine grid has been held at the floor of 20 pixels
FloorReached ==
    /\ last.op = "mouseMove"
    /\ resizeState.isResizing
    /\ layout.canvas.snap_to_grid
    /\ layout.canvas.grid_size = px(10)
    /\ getProp(Resized(layout.widgets).properties, "width") = <<minSize>>

\* C29: after every resize move, for every handle, pointer position and
\* snap_to_grid / grid_size setting, the width and the height committed to
\* the widget are each at least the minimum size floor of 20 pixels.
C29_ResizeKeepsFloor ==
    [][ ResizeMove => FloorKept ]_vars

\* the type's metadata declares a property of this name
Declares(type, name) ==
    /\ type \in KnownTypes
    /\ \E i \in DOMAIN widgetMetadataByType[type].properties :
          widgetMetadataByType[type].properties[i].name = name

\* the size keys a resize of a widget of this type writes
WrittenKeys(type) ==
    IF Declares(type, "width") /\ Declares(type, "height") THEN {"width", "height"}
    ELSE IF Declares(type, "size") THEN {"size"}
    ELSE {"_displayWidth", "_displayHeight"}

\* what a size key holds when a resize to `box` has written it
WrittenValue(k, box) ==
    IF k \in {"width", "_displayWidth"} THEN box.width
    ELSE IF k \in {"height", "_displayHeight"} THEN box.height
    ELSE Min(box.width, box.height)

CommitsByPriority ==
    LET commits(before, after, box) ==
            \A k \in SizeKeys :
               getProp(after.properties, k) =
                  IF k \in WrittenKeys(before.type) THEN <<WrittenValue(k, box)>>
                  ELSE getProp(before.properties, k)
    IN  commits(Resized(layout.widgets), Resized(layout'.widgets),
                resizedBox(resizeState, layout.canvas, last'.at[1]))

\* C30: a resize move commits the new size by this priority and writes
\* nothing else of the size representation: properties.width and
\* properties.height if the type's metadata declares both; else
\* properties.size = min(newWidth, newHeight) if it declares size; else
\* properties._displayWidth and properties._displayHeight.
C30_ResizeCommitsByPriority ==
    [][ ResizeMove => CommitsByPriority ]_vars

\* a resize has narrowed a widget whose type declares size only: size holds
\* the smaller of the new width and height, and no other size key was written
C30_Witness ==
    /\ last.op = "mouseMove"
    /\ resizeState.isResizing
    /\ Resized(layout.widgets).type = "moving_map"
    /\ resizeState.startWidth = px(60)
    /\ getProp(Resized(layout.widgets).properties, "size") = <<px(20)>>
    /\ \A k \in SizeKeys \ {"size"} : getProp(Resized(layout.widgets).properties, k) = <<>>

\* a resize has written width and height of a widget whose type declares both
ResizedDeclaredBox ==
    /\ last.op = "mouseMove"
    /\ resizeState.isResizing
    /\ Resized(layout.widgets).type = "bar"
    /\ getProp(Resized(layout.widgets).properties, "width") # <<px(60)>>
    /\ getProp(Resized(layout.widgets).properties, "_displayWidth") = <<>>

\* a resize has written the display size of a widget whose type declares
\* neither width and height nor size
ResizedDisplaySize ==
    /\ last.op = "mouseMove"
    /\ resizeState.isResizing
    /\ Resized(layout.widgets).type = "text"
    /\ getProp(Resized(layout.widgets).properties, "_displayWidth") # <<px(60)>>
    /\ getProp(Resized(layout.widgets).properties, "width") = <<>>

\* the top-level containers that have a visible child
ShownContainers ==
    { i \in DOMAIN layout.widgets :
        /\ layout.widgets[i].visible
        /\ DeclaredContainer(layout.widgets[i].type)
        /\ UnionBox(layout.widgets[i].children) # <<>> }

\* across: the element of a container with a visible child starts at the
\* anchor plus the left edge of the union box and is as wide and as high as
\* the box, and every visible child is painted at the container's anchor
\* plus its own left edge
ContainerRenderedAcross ==
    HasLayout =>
       \A i \in ShownContainers :
          LET drawn(c, r, box) ==
                  /\ r.left = c.x + box.x
                  /\ r.width = box.width
                  /\ r.height = box.height
                  /\ r.childrenOffsetX = -box.x
                  /\ \A j \in DOMAIN c.children :
                        c.children[j].visible =>
                           elementPosition(layout.widgets, <<i, j>>, 0, 0).x
                             = c.x + EffectiveLeft(c.children[j])
          IN  drawn(layout.widgets[i], renderWidget(layout.widgets[i]),
                    UnionBox(layout.widgets[i].children)[1])

\* down: the same for the top edge
ContainerRenderedDown ==
    HasLayout =>
       \A i \in ShownContainers :
          LET drawn(c, r, box) ==
                  /\ r.top = c.y + box.y
                  /\ r.childrenOffsetY = -box.y
                  /\ \A j \in DOMAIN c.children :
                        c.children[j].visible =>
                           elementPosition(layout.widgets, <<i, j>>, 0, 0).y
                             = c.y + c.children[j].y
          IN  drawn(layout.widgets[i], renderWidget(layout.widgets[i]),
                    UnionBox(layout.widgets[i].children)[1])

\* C31: for a container with at least one visible child, the rendered
\* rectangle is the union box of its children translated by the container's
\* anchor (left = x + box.x, top = y + box.y, width and height of the box),
\* the children are painted with offset (-box.x, -box.y), so that every
\* child is painted at the container's anchor plus its own position on
\* both axes, and rendering changes no stored x, y.
C31_ContainerIsTranslatedUnionBox ==
    /\ ContainerRenderedAcross
    /\ ContainerRenderedDown
    /\ render(State).layout = layout

\* the number of widgets of the tree that carry this id
RECURSIVE Occurrences(_, _)
Occurrences(widgets, id) ==
    IF widgets = <<>> THEN 0
    ELSE (IF Head(widgets).id = id THEN 1 ELSE 0)
         + Occurrences(Head(widgets).children, id) + Occurrences(Tail(widgets), id)

\* the drop event of this step comes less than 300 ms after the last drop
\* that was taken
WithinWindow == lastDropTime # 0 /\ now' - lastDropTime < 300

\* where a drop at `at` puts its widget
DropsAt(at, canvas) ==
    IF canvas.snap_to_grid
    THEN [x |-> roundTo(mathRound(at.x), canvas.grid_size),
          y |-> roundTo(mathRound(at.y), canvas.grid_size)]
    ELSE [x |-> mathRound(at.x), y |-> mathRound(at.y)]

DropDiscarded ==
    /\ layout' = layout
    /\ selectedWidgets' = selectedWidgets
    /\ HistoryKept

\* one widget more, the last of the top level, of the dropped type at the
\* drop coordinates, and the selection holds its id only
DropCreatesOne ==
    LET created(w, at) ==
            /\ w.id = last'.id
            /\ w.type = last'.type
            /\ w.x = at.x /\ w.y = at.y
            /\ w.children = <<>>
    IN  /\ Len(layout'.widgets) = Len(layout.widgets) + 1
        /\ SubSeq(layout'.widgets, 1, Len(layout.widgets)) = layout.widgets
        /\ created(layout'.widgets[Len(layout'.widgets)],
                   DropsAt(last'.at[1], layout.canvas))
        /\ selectedWidgets' = {last'.id}

\* drops within the window are discarded; a later drop of a known type
\* creates one widget and puts its id, alone, in the selection
DropDebounced ==
    [][ last'.op = "drop"
        => IF WithinWindow THEN DropDiscarded
           ELSE last'.type \in KnownTypes => DropCreatesOne ]_vars

\* C32: a palette drop arriving less than 300 ms after the previous accepted
\* drop is discarded: it creates no widget and changes neither the layout,
\* the selection nor the history; a drop of a known type arriving 300 ms or
\* more after the previous drop creates exactly one widget at the
\* (grid-snapped when snap_to_grid) drop coordinates and makes it the sole
\* selected widget.
C32_DropDebounced ==
    [][ last'.op = "drop"
        => IF WithinWindow THEN DropDiscarded
           ELSE last'.type \in KnownTypes
                => /\ DropCreatesOne
                   /\ \A id \in selectedWidgets' : Occurrences(layout'.widgets, id) = 1 ]_vars

\* a second drop came 299 ms after a drop that was taken and was discarded
DropWasDiscarded ==
    /\ last.op = "drop"
    /\ last.type \in KnownTypes
    /\ now - lastDropTime = 299
    /\ Len(history) = last.len

\* a second drop came 300 ms after a drop that was taken and was taken too
DropWasTaken ==
    /\ last.op = "drop"
    /\ last.again
    /\ lastDropTime = now
    /\ now = StartTime + 600
    /\ Len(layout.widgets) = 2

\* the step is a pointer-down on a widget that is locked, or on a handle of one
PointerDownOnLocked ==
    /\ last'.op \in {"widgetMouseDown", "handleMouseDown"}
    /\ last'.lockedDown # <<>>

\* the step is a pointer-move or the pointer-up that follows a pointer-down
\* on a locked widget
FollowsPointerDownOnLocked ==
    /\ last'.op \in {"mouseMove", "mouseUp"}
    /\ last.lockedDown # <<>>

\* the widget of that pointer-down is where and as large as it was
LockedStays ==
    LET same(before, after) ==
            /\ after # <<>>
            /\ after[1].x = before[1].x
            /\ after[1].y = before[1].y
            /\ \A k \in SizeKeys :
                  getProp(after[1].properties, k) = getProp(before[1].properties, k)
    IN  same(findWidgetRecursive(layout.widgets, last.lockedDown[1]),
             findWidgetRecursive(layout'.widgets, last.lockedDown[1]))

\* a pointer-down on a locked widget starts nothing and selects nothing,
\* and while no gesture is active the pointer-moves and the pointer-up after
\* it change neither the widget nor the history
LockedStartsNothing ==
    [][ /\ PointerDownOnLocked
           => /\ dragState' = dragState
              /\ resizeState' = resizeState
              /\ selectedWidgets' = selectedWidgets
              /\ layout' = layout
              /\ HistoryKept
        /\ FollowsPointerDownOnLocked /\ ~InGesture
           => LockedStays /\ HistoryKept ]_vars

\* a locked widget was pressed while nothing was being dragged, and the
\* pointer has moved
LockedWasPressed ==
    /\ last.op = "mouseMove"
    /\ last.lockedDown # <<>>
    /\ ~InGesture
    /\ findWidgetRecursive(layout.widgets, last.lockedDown[1])[1].locked

\* C33: a widget that is locked at pointer-down cannot start a drag or a
\* resize: a pointer-down on it or on one of its handles activates neither
\* dragState nor resizeState and does not change the selection, and the
\* following pointer-moves and pointer-up change neither its x, y, size
\* properties nor the history.
C33_LockedIsNotMoved ==
    [][ /\ PointerDownOnLocked
           => /\ dragState' = dragState
              /\ resizeState' = resizeState
              /\ selectedWidgets' = selectedWidgets
        /\ FollowsPointerDownOnLocked
           => LockedStays /\ HistoryKept ]_vars

\* the callbacks in flight whose signal has not been aborted
Live == { c \in calls : ~c.aborted }

\* the controller the debouncer holds is never an aborted one
HeldControllerNotAborted ==
    \A c \in calls : c.aborted => debouncer.abortController # <<c.signal>>

\* two callbacks that were not aborted are in flight and isPending() is false
TwoLiveUnseen ==
    /\ Cardinality(Live) = 2
    /\ ~isPending(debouncer)

\* C34: stale preview responses are discarded: under every interleaving of
\* request, requestImmediate, cancel, timer expiry and callback completion,
\* a new request aborts the callback still in flight, so at most one
\* callback that was not aborted is in flight at any time and isPending()
\* is true whenever one is.
C34_OneLivePreview ==
    /\ Cardinality(Live) <= 1
    /\ Live # {} => isPending(debouncer)

\* C35: in every reachable state of HistoryManager, -1 <= currentIndex <=
\* history.length - 1, currentIndex = -1 exactly when the history is empty,
\* and lastSnapshot equals history[currentIndex] when the history is not
\* empty (it is null when the history is empty).
C35_CursorAndLastSnapshot ==
    /\ -1 <= currentIndex
    /\ currentIndex <= Len(history) - 1
    /\ currentIndex = -1 <=> history = <<>>
    /\ lastSnapshot = IF history = <<>> THEN <<>> ELSE <<history[currentIndex + 1]>>

\* the history was full, a snapshot evicted its oldest entry, and an undo
\* has then moved the cursor back by one
C35_Witness ==
    /\ last.op = "undo"
    /\ last.again = FALSE
    /\ Len(history) = maxHistory
    /\ last.len = maxHistory
    /\ currentIndex = maxHistory - 2
    /\ lastSnapshot = <<history[maxHistory - 1]>>
    /\ steps = 3

\* no entry of h equals the entry after it
AdjacentDiffer(h) == \A i \in 1..(Len(h) - 1) : h[i] # h[i + 1]

\* C36: no two adjacent history entries are identical after any sequence of
\* snapshot, undo, redo, clear and capacity eviction, so every undo() or
\* redo() that moves the cursor restores a layout different from the one at
\* the cursor's previous position.
C36_AdjacentEntriesDiffer ==
    [][ /\ AdjacentDiffer(history)
        /\ AdjacentDiffer(history')
        /\ last'.op \in {"undo", "redo"} /\ currentIndex' # currentIndex
           => /\ layout' = JSONparse(history[currentIndex' + 1])
              /\ layout' # JSONparse(history[currentIndex + 1]) ]_vars

\* after a snapshot that evicted the oldest entry of a full history, an
\* undo has restored the entry before the newest, which differs from it
C36_Witness ==
    /\ last.op = "undo"
    /\ last.len = maxHistory
    /\ Len(history) = maxHistory
    /\ currentIndex = last.idx - 1
    /\ layout = JSONparse(history[currentIndex + 1])
    /\ layout # JSONparse(history[currentIndex + 2])
    /\ history[1] # JSONstringify(OneWidgetLayout)

\* the live layout is the one the last snapshot recorded
Recorded == lastSnapshot = <<JSONstringify(layout)>>

\* when the live layout is the one last recorded, undo() followed by
\* redo() gives it back
UndoRedoOfRecorded ==
    canUndo(State) /\ Recorded
    => \A r1, r2 \in BOOLEAN : redo(undo(State, r1), r2).layout = layout

\* undo is possible and the live layout is the one last recorded
UndoableRecorded == canUndo(State) /\ Recorded /\ last.op = "addWidget"

\* C37: in every reachable state where canUndo() holds, undo() immediately
\* followed by redo() leaves the live layout equal to the layout before the
\* undo, also after edits made through updateWidget (visibility and lock
\* toggles, drag moves in progress) or updateCanvas, which change the
\* layout without taking a snapshot.
C37_UndoRedoKeepsLayout ==
    canUndo(State) => \A r1, r2 \in BOOLEAN : redo(undo(State, r1), r2).layout = layout

\* a step taken while no gesture is active leaves at most one active
SingleFromIdle ==
    [][ ~InGesture => ~(dragState'.isDragging /\ resizeState'.isResizing) ]_vars

\* a resize was started from idle and is the only gesture
ResizingAlone ==
    /\ last.op = "handleMouseDown"
    /\ resizeState.isResizing
    /\ ~dragState.isDragging

\* C38: at most one gesture is active at a time: dragState.isDragging and
\* resizeState.isResizing are never both true under any order of
\* pointer-down on widgets, pointer-down on resize handles, pointer-move and
\* pointer-up events, also when no pointer-up is delivered before the next
\* pointer-down.
C38_OneGestureAtATime ==
    ~(dragState.isDragging /\ resizeState.isResizing)

\* the resized widget is drawn with the width and height of `box`
DrawnAs(w, box) == effectiveWidth(w) = box.width /\ effectiveHeight(w) = box.height

\* the size the move computes
NewBox == resizedBox(resizeState, layout.canvas, last'.at[1])

\* a widget whose type does not keep its size as `size` is drawn with the
\* size the resize computed, when neither side of it is 0
DrawnAsCommittedUnlessSize ==
    [][ /\ ResizeMove
        /\ WrittenKeys(Resized(layout.widgets).type) # {"size"}
        /\ NewBox.width # 0 /\ NewBox.height # 0
        => DrawnAs(Resized(layout'.widgets), NewBox) ]_vars

\* C39: the size a resize commits is the size the widget is then drawn
\* with: after a resize move has computed newWidth and newHeight, the
\* effective size resolved for the widget (properties.width / height, else
\* _displayWidth / _displayHeight, else size for box-sized types, else the
\* type default, else 100 x 50) is newWidth x newHeight, for every widget
\* type and metadata.
C39_DrawnAsCommitted ==
    [][ ResizeMove => DrawnAs(Resized(layout'.widgets), NewBox) ]_vars

\* at most one status request is in flight
OneStatusRequest == Len(server.statusRequests) <= 1

\* a status response for the job the modal shows is taken: it sets
\* currentStatus and the status text
OwnResponseTaken ==
    [][ answered' # <<>> /\ modal.jobId = answered' /\ modal'.consecutiveFailures = 0
        => /\ modal'.currentStatus = modal'.shown
           /\ modal'.shownJob = answered' ]_vars

\* the modal shows the status of the job it was opened for, received while
\* it was polling
OwnStatusShown ==
    /\ modal.isOpen
    /\ modal.jobId = <<2>>
    /\ modal.shownJob = <<2>>
    /\ modal.shown = <<"running">>
    /\ modal.polling

\* C40: a render-status response only affects the job it was requested
\* for: a response to a status request issued for an earlier jobId never
\* updates the displayed progress, never sets currentStatus and never stops
\* polling for the modal's current job, and at most one status request is
\* in flight at any time.
C40_ResponseOnlyForItsJob ==
    [][ /\ OneStatusRequest
        /\ answered' # <<>> /\ modal.jobId # <<>> /\ modal.jobId # answered'
           => /\ modal'.shown = modal.shown
              /\ modal'.shownJob = modal.shownJob
              /\ modal'.currentStatus = modal.currentStatus
              /\ modal'.polling = modal.polling ]_vars

====
